---- MODULE Spec2Model ----
(***************************************************************************)
(* A model of the RustyJson codec core: the streaming decoder              *)
(* (direct_decode.rs), its byte scanners (simd_utils.rs) and the encoder   *)
(* (direct_json.rs).  Bytes are integers 0..255, byte offsets are 0-based  *)
(* as in the source, a byte string is a sequence of bytes.                 *)
(***************************************************************************)
EXTENDS Integers, Sequences, FiniteSets, TLC

(***************************************************************************)
(* Bytes and byte strings                                                  *)
(***************************************************************************)

\* The printable ASCII characters, code 32 first.
AsciiChars ==
    << " ", "!", "\"", "#", "$", "%", "&", "'", "(", ")", "*", "+", ",", "-", ".", "/",
       "0", "1", "2", "3", "4", "5", "6", "7", "8", "9", ":", ";", "<", "=", ">", "?",
       "@", "A", "B", "C", "D", "E", "F", "G", "H", "I", "J", "K", "L", "M", "N", "O",
       "P", "Q", "R", "S", "T", "U", "V", "W", "X", "Y", "Z", "[", "\\", "]", "^", "_",
       "grave", "a", "b", "c", "d", "e", "f", "g", "h", "i", "j", "k", "l", "m", "n", "o",
       "p", "q", "r", "s", "t", "u", "v", "w", "x", "y", "z", "{", "|", "}", "~" >>

\* The byte of a printable ASCII character (Rust's b'c').
Ord(c) == 31 + (CHOOSE i \in 1..Len(AsciiChars) : AsciiChars[i] = c)

\* The byte string of a sequence of characters (Rust's b"...").
Bytes(cs) == [i \in 1..Len(cs) |-> Ord(cs[i])]

\* The bytes of an ASCII text.
Str(s) == [i \in 1..Len(s) |-> Ord(SubSeq(s, i, i))]

QUOTE == Ord("\"")
BACKSLASH == Ord("\\")
SLASH == Ord("/")
LBRACKET == Ord("[")
RBRACKET == Ord("]")
LBRACE == Ord("{")
RBRACE == Ord("}")
COLON == Ord(":")
COMMA == Ord(",")
MINUS == Ord("-")
PLUS == Ord("+")
DOT == Ord(".")
ZERO == Ord("0")
NINE == Ord("9")
SPACE == Ord(" ")
TAB == SPACE - 23
LF == SPACE - 22
CR == SPACE - 19

\* input[p] with the source's 0-based offsets.
At(input, p) == input[p + 1]

\* input[a..b] of the source: offsets a (included) to b (excluded).
Slice(input, a, b) == SubSeq(input, a + 1, b)

\* The element of a set of one element.
TheOne(S) == CHOOSE x \in S : TRUE

MinOf(S) == CHOOSE x \in S : \A y \in S : x <= y
MaxOf(S) == CHOOSE x \in S : \A y \in S : y <= x

\* Whitespace as a C locale has it: form feed and vertical tab as well.
IsSpaceOfCLocale(b) == b \in {32, 9, 10, 11, 12, 13}

\* b' ' | b'\t' | b'\n' | b'\r'
IsWhitespace(b) == b = SPACE \/ b = TAB \/ b = LF \/ b = CR

\* u8::is_ascii_digit
IsAsciiDigit(b) == b >= ZERO /\ b <= NINE

\* u8::is_ascii_hexdigit
IsAsciiHexDigit(b) ==
    \/ IsAsciiDigit(b)
    \/ (b >= Ord("a") /\ b <= Ord("f"))
    \/ (b >= Ord("A") /\ b <= Ord("F"))

\* ESCAPE_TABLE: control characters, the quote and the backslash.
NeedsJsonEscape(b) == b < 32 \/ b = QUOTE \/ b = BACKSLASH

(***************************************************************************)
(* Byte scanners (simd_utils.rs), the baseline 16-byte build               *)
(***************************************************************************)

CHUNK == 16

RECURSIVE skip_plain_string_bytes(_, _)
skip_plain_string_bytes(input, pos) ==
    IF pos + CHUNK <= Len(input)
    THEN IF \E k \in 0..(CHUNK - 1) : NeedsJsonEscape(At(input, pos + k))
         THEN pos
         ELSE skip_plain_string_bytes(input, pos + CHUNK)
    ELSE pos

RECURSIVE skip_ascii_digits(_, _)
skip_ascii_digits(input, pos) ==
    IF pos + CHUNK <= Len(input)
    THEN LET others == {k \in 0..(CHUNK - 1) : ~IsAsciiDigit(At(input, pos + k))}
         IN  IF others = {}
             THEN skip_ascii_digits(input, pos + CHUNK)
             ELSE pos + MinOf(others)
    ELSE pos

RECURSIVE simd_skip_whitespace(_, _)
simd_skip_whitespace(input, pos) ==
    IF pos + CHUNK <= Len(input)
    THEN LET others == {k \in 0..(CHUNK - 1) : ~IsWhitespace(At(input, pos + k))}
         IN  IF others = {}
             THEN simd_skip_whitespace(input, pos + CHUNK)
             ELSE pos + MinOf(others)
    ELSE pos

RECURSIVE find_escape_json_scalar(_, _)
find_escape_json_scalar(bytes, pos) ==
    IF pos < Len(bytes)
    THEN IF NeedsJsonEscape(At(bytes, pos))
         THEN pos
         ELSE find_escape_json_scalar(bytes, pos + 1)
    ELSE pos

RECURSIVE find_escape_json(_, _)
find_escape_json(bytes, pos) ==
    IF pos + CHUNK <= Len(bytes)
    THEN LET hits == {k \in 0..(CHUNK - 1) : NeedsJsonEscape(At(bytes, pos + k))}
         IN  IF hits # {}
             THEN pos + MinOf(hits)
             ELSE find_escape_json(bytes, pos + CHUNK)
    ELSE find_escape_json_scalar(bytes, pos)

\* The bytes the three encoder-only finders flag, per escape mode.
FlaggedByte(mode, b) ==
    \/ NeedsJsonEscape(b)
    \/ (mode = "html_safe"
          /\ (b = Ord("<") \/ b = Ord(">") \/ b = Ord("&") \/ b = SLASH \/ b >= 226))
    \/ (mode = "unicode_safe" /\ b >= 128)
    \/ (mode = "javascript_safe" /\ b >= 226)

RECURSIVE find_escape_mode_scalar(_, _, _)
find_escape_mode_scalar(mode, bytes, pos) ==
    IF pos < Len(bytes)
    THEN IF FlaggedByte(mode, At(bytes, pos))
         THEN pos
         ELSE find_escape_mode_scalar(mode, bytes, pos + 1)
    ELSE pos

\* find_escape_html, find_escape_unicode, find_escape_javascript: whole chunks
\* without a flagged byte are skipped, then the scalar tail finds the byte.
RECURSIVE find_escape_mode(_, _, _)
find_escape_mode(mode, bytes, pos) ==
    IF pos + CHUNK <= Len(bytes)
          /\ ~(\E k \in 0..(CHUNK - 1) : FlaggedByte(mode, At(bytes, pos + k)))
    THEN find_escape_mode(mode, bytes, pos + CHUNK)
    ELSE find_escape_mode_scalar(mode, bytes, pos)

(***************************************************************************)
(* UTF-8 and hexadecimal text                                              *)
(***************************************************************************)

\* char::encode_utf8: the UTF-8 bytes of a Unicode scalar value.
encode_utf8(cp) ==
    IF cp < 128 THEN << cp >>
    ELSE IF cp < 2048 THEN << 192 + (cp \div 64), 128 + (cp % 64) >>
    ELSE IF cp < 65536
         THEN << 224 + (cp \div 4096), 128 + ((cp \div 64) % 64), 128 + (cp % 64) >>
         ELSE << 240 + (cp \div 262144), 128 + ((cp \div 4096) % 64),
                 128 + ((cp \div 64) % 64), 128 + (cp % 64) >>

\* char::from_u32: a code point is a char unless it is a surrogate or too large.
IsScalarValue(cp) == cp >= 0 /\ cp <= 1114111 /\ ~(cp >= 55296 /\ cp <= 57343)

IsContinuation(b) == b >= 128 /\ b <= 191

\* utf8_char_len: the length a lead byte announces.
utf8_char_len(b) == IF b < 128 THEN 1 ELSE IF b < 224 THEN 2 ELSE IF b < 240 THEN 3 ELSE 4

\* The code point of the well-formed UTF-8 sequence at offset p, or -1.
DecodeUtf8At(bytes, p) ==
    LET b == At(bytes, p)
        n == Len(bytes)
    IN  IF b < 128 THEN b
        ELSE IF b >= 194 /\ b <= 223
        THEN IF p + 1 < n /\ IsContinuation(At(bytes, p + 1))
             THEN (b - 192) * 64 + (At(bytes, p + 1) - 128)
             ELSE -1
        ELSE IF b >= 224 /\ b <= 239
        THEN IF p + 2 < n /\ IsContinuation(At(bytes, p + 1)) /\ IsContinuation(At(bytes, p + 2))
             THEN LET cp == (b - 224) * 4096 + (At(bytes, p + 1) - 128) * 64
                              + (At(bytes, p + 2) - 128)
                  IN  IF cp >= 2048 /\ IsScalarValue(cp) THEN cp ELSE -1
             ELSE -1
        ELSE IF b >= 240 /\ b <= 244
        THEN IF p + 3 < n /\ IsContinuation(At(bytes, p + 1)) /\ IsContinuation(At(bytes, p + 2))
                  /\ IsContinuation(At(bytes, p + 3))
             THEN LET cp == (b - 240) * 262144 + (At(bytes, p + 1) - 128) * 4096
                              + (At(bytes, p + 2) - 128) * 64 + (At(bytes, p + 3) - 128)
                  IN  IF cp >= 65536 /\ IsScalarValue(cp) THEN cp ELSE -1
             ELSE -1
        ELSE -1

\* simdutf8::basic::from_utf8(bytes).is_ok()
RECURSIVE from_utf8_ok(_, _)
from_utf8_ok(bytes, p) ==
    IF p >= Len(bytes) THEN TRUE
    ELSE \E next \in {p + utf8_char_len(At(bytes, p))} :
             DecodeUtf8At(bytes, p) >= 0 /\ from_utf8_ok(bytes, next)

\* The value of one hexadecimal digit.
HexDigitValue(b) ==
    IF IsAsciiDigit(b) THEN b - ZERO
    ELSE IF b >= Ord("a") THEN b - Ord("a") + 10
    ELSE b - Ord("A") + 10

\* u16::from_str_radix(hex, 16) of four validated hex digits.
from_str_radix16(hex) ==
    HexDigitValue(hex[1]) * 4096 + HexDigitValue(hex[2]) * 256
        + HexDigitValue(hex[3]) * 16 + HexDigitValue(hex[4])

\* The lower-case hex digits of n, most significant first (n > 0).
RECURSIVE HexDigits(_)
HexDigits(n) ==
    IF n = 0 THEN << >>
    ELSE Append(HexDigits(n \div 16),
                IF n % 16 < 10 THEN ZERO + (n % 16) ELSE Ord("a") + (n % 16) - 10)

\* format!("{:04x}", n): at least four lower-case hex digits, zero padded.
FormatHex04(n) ==
    LET d == HexDigits(n)
    IN  [i \in 1..(IF Len(d) < 4 THEN 4 - Len(d) ELSE 0) |-> ZERO] \o d

(***************************************************************************)
(* Terms (the host value tree).  A term is a pair << tag, payload >>:      *)
(*   << "atom", name >>      nil, true, false                               *)
(*   << "int", n >>          an integer                                     *)
(*   << "float", f >>        f = [neg, mant, exp]: the double nearest to    *)
(*                           (-1)^neg * mant * 10^exp, mant without a       *)
(*                           trailing zero (short decimals name doubles     *)
(*                           one to one)                                    *)
(*   << "binary", bytes >>   a byte string                                  *)
(*   << "list", elems >>     a list                                         *)
(*   << "map", f >>          a map, f a function from key bytes to terms    *)
(*   << "keyed", entries >>  a map with keys of any type: its pairs         *)
(*                           << key, value >> in the order of iteration     *)
(*   << "ordered", pairs >>  %RustyJson.OrderedObject{values: pairs}        *)
(*   << "decimal", d >>      %Decimal{sign, coef, exp}, coef by its digits  *)
(*   << "int", n >>          an integer                                     *)
(*   << "bigint", text >>    an integer of more than FAST_DIGITS digits, by *)
(*                           its text -?digits                              *)
(***************************************************************************)

Ok(term, pos) == [ok |-> TRUE, term |-> term, pos |-> pos]
Err(msg, at) == [ok |-> FALSE, msg |-> msg, at |-> at]

NIL == << "atom", "nil" >>

(***************************************************************************)
(* Strings (direct_decode.rs)                                              *)
(***************************************************************************)

\* A pair combined without the offset of the supplementary planes.
SurrogatePairWithoutOffset(cp, cp2) == (cp - 55296) * 1024 + (cp2 - 56320)

\* The combined code point of a surrogate pair.
SurrogatePairCodePoint(cp, cp2) == 65536 + (cp - 55296) * 1024 + (cp2 - 56320)

IsHighSurrogate(cp) == cp >= 55296 /\ cp <= 56319
IsLowSurrogate(cp) == cp >= 56320 /\ cp <= 57343

AllHex(hex) == \A k \in 1..Len(hex) : IsAsciiHexDigit(hex[k])

\* Whether a low-surrogate escape starts at offset i + 5, i being the offset of
\* the 'u' of a high-surrogate escape.
LowSurrogateFollows(input, i, end) ==
    /\ i + 11 <= end
    /\ At(input, i + 5) = BACKSLASH
    /\ At(input, i + 6) = Ord("u")
    /\ AllHex(Slice(input, i + 7, i + 11))
    /\ IsLowSurrogate(from_str_radix16(Slice(input, i + 7, i + 11)))

\* The byte a simple escape character stands for, or -1.
SimpleEscape(c) ==
    IF c = QUOTE \/ c = BACKSLASH \/ c = SLASH THEN c
    ELSE IF c = Ord("b") THEN 8
    ELSE IF c = Ord("f") THEN 12
    ELSE IF c = Ord("n") THEN LF
    ELSE IF c = Ord("r") THEN CR
    ELSE IF c = Ord("t") THEN TAB
    ELSE -1

\* DirectParser::decode_escaped_string, the loop from offset i with `result` so far.
RECURSIVE decode_escaped_loop(_, _, _, _)
decode_escaped_loop(input, i0, end, result) ==
    IF i0 >= end THEN [ok |-> TRUE, bytes |-> result]
    ELSE IF At(input, i0) = BACKSLASH /\ i0 + 1 < end
    THEN LET i == i0 + 1
             c == At(input, i)
         IN  IF SimpleEscape(c) >= 0
             THEN decode_escaped_loop(input, i + 1, end, Append(result, SimpleEscape(c)))
             ELSE IF c = Ord("u")
             THEN IF i + 4 >= end
                  THEN [ok |-> FALSE, msg |-> "Incomplete unicode escape"]
                  ELSE IF ~AllHex(Slice(input, i + 1, i + 5))
                  THEN [ok |-> FALSE, msg |-> "Invalid unicode escape"]
                  ELSE LET cp == from_str_radix16(Slice(input, i + 1, i + 5))
                       IN  IF IsHighSurrogate(cp)
                           THEN IF LowSurrogateFollows(input, i, end)
                                THEN LET cp2 == from_str_radix16(Slice(input, i + 7, i + 11))
                                         full_cp == SurrogatePairCodePoint(cp, cp2)
                                     IN  decode_escaped_loop(input, i + 11, end,
                                            IF IsScalarValue(full_cp)
                                            THEN result \o encode_utf8(full_cp)
                                            ELSE result)
                                ELSE [ok |-> FALSE, msg |-> "Lone surrogate in string"]
                           ELSE IF IsLowSurrogate(cp)
                           THEN [ok |-> FALSE, msg |-> "Lone surrogate in string"]
                           ELSE decode_escaped_loop(input, i + 5, end,
                                    IF IsScalarValue(cp)
                                    THEN result \o encode_utf8(cp)
                                    ELSE result)
             ELSE [ok |-> FALSE, msg |-> "Invalid escape sequence"]
    ELSE TheOne({IF next > i0
                 THEN decode_escaped_loop(input, next, end, result \o Slice(input, i0, next))
                 ELSE decode_escaped_loop(input, i0 + 1, end, Append(result, At(input, i0))) :
                     next \in {IF found < end THEN found ELSE end :
                                   found \in {find_escape_json(input, i0)}}})

decode_escaped_string(input, start, end) == decode_escaped_loop(input, start, end, << >>)

\* The scanning loop shared by parse_string_impl and scan_string_raw, from offset
\* p0 inside the string: the offset of the closing quote and whether an escape
\* was seen, or the error.
RECURSIVE scan_string_loop(_, _, _, _)
scan_string_loop(input, string_start, p0, has_escape) ==
    TheOne({
        IF p >= Len(input)
        THEN [ok |-> FALSE, msg |-> "Unterminated string", at |-> string_start]
        ELSE IF At(input, p) = QUOTE
        THEN [ok |-> TRUE, end |-> p, has_escape |-> has_escape]
        ELSE IF At(input, p) = BACKSLASH
        THEN scan_string_loop(input, string_start,
                              IF p + 1 < Len(input) THEN p + 2 ELSE p + 1, TRUE)
        ELSE IF At(input, p) < 32
        THEN [ok |-> FALSE, msg |-> "Unescaped control character", at |-> p]
        ELSE scan_string_loop(input, string_start, p + 1, has_escape)
        : p \in {skip_plain_string_bytes(input, p0)}})

\* parse_string_impl once the bytes between the quotes are known: the UTF-8
\* validation and the term.
string_term(bytes, string_start, next, opts) ==
    TheOne({IF opts.validate_strings /\ ~from_utf8_ok(text, 0)
            THEN Err("Invalid UTF-8 in string", string_start)
            ELSE Ok(<< "binary", text >>, next) : text \in {bytes}})

string_decoded(decoded, string_start, next, opts) ==
    IF ~decoded.ok THEN Err(decoded.msg, string_start)
    ELSE string_term(decoded.bytes, string_start, next, opts)

string_scanned(input, pos, sc, opts) ==
    IF ~sc.ok THEN Err(sc.msg, sc.at)
    ELSE IF sc.has_escape
    THEN TheOne({string_decoded(decoded, pos, sc.end + 1, opts) :
                    decoded \in {decode_escaped_string(input, pos + 1, sc.end)}})
    ELSE string_term(Slice(input, pos + 1, sc.end), pos, sc.end + 1, opts)

\* DirectParser::parse_string_impl at the opening quote at offset pos.
parse_string_impl(input, pos, opts) ==
    TheOne({string_scanned(input, pos, sc, opts) :
                sc \in {scan_string_loop(input, pos, pos + 1, FALSE)}})

raw_scanned(input, pos, sc) ==
    IF ~sc.ok THEN Err(sc.msg, sc.at)
    ELSE [ok |-> TRUE, raw |-> Slice(input, pos + 1, sc.end), pos |-> sc.end + 1]

\* DirectParser::scan_string_raw: the raw bytes between the quotes.
scan_string_raw(input, pos) ==
    TheOne({raw_scanned(input, pos, sc) : sc \in {scan_string_loop(input, pos, pos + 1, FALSE)}})

(***************************************************************************)
(* Numbers (direct_decode.rs)                                              *)
(***************************************************************************)

\* The longest inline-accumulated digit run of parse_number_fast.
FAST_DIGITS == 18

\* skip_ascii_digits followed by the scalar `while pos < len && is_ascii_digit`.
RECURSIVE scalar_skip_digits(_, _)
scalar_skip_digits(bytes, pos) ==
    IF pos < Len(bytes) /\ IsAsciiDigit(At(bytes, pos))
    THEN scalar_skip_digits(bytes, pos + 1)
    ELSE pos

DigitRunEnd(bytes, pos) == scalar_skip_digits(bytes, skip_ascii_digits(bytes, pos))

\* val = val * 10 + (b - b'0') over a run of digits.
RECURSIVE AccumulateDigits(_, _)
AccumulateDigits(digits, val) ==
    IF digits = << >> THEN val
    ELSE AccumulateDigits(Tail(digits), val * 10 + (Head(digits) - ZERO))

\* lexical_core::parse::<i64> (then u64, then BigInt) of -?digits.
ParseInteger(num_bytes) ==
    IF num_bytes[1] = MINUS
    THEN -AccumulateDigits(Tail(num_bytes), 0)
    ELSE AccumulateDigits(num_bytes, 0)

\* The integer term of the text -?digits.  An integer of more than
\* FAST_DIGITS digits (the BigInt of parse_number and of
\* parse_number_as_decimal among them) is held as its text.
integer_term(num_bytes) ==
    IF Len(num_bytes) - (IF num_bytes[1] = MINUS THEN 1 ELSE 0) > FAST_DIGITS
    THEN << "bigint", num_bytes >>
    ELSE << "int", ParseInteger(num_bytes) >>

\* A decimal m * 10^e without trailing zeros in m (0 is 0 * 10^0).
RECURSIVE NormalizeDecimal(_, _)
NormalizeDecimal(m, e) ==
    IF m = 0 THEN << 0, 0 >>
    ELSE IF m % 10 = 0 THEN NormalizeDecimal(m \div 10, e + 1)
    ELSE << m, e >>

\* The first index of seq holding a member of S, or Len(seq) + 1.
FirstIndexOf(seq, S) ==
    IF \E k \in 1..Len(seq) : seq[k] \in S
    THEN MinOf({k \in 1..Len(seq) : seq[k] \in S})
    ELSE Len(seq) + 1

\* The value of [+-]?digits, 0 for the empty text.
SignedDigits(text) ==
    IF text = << >> THEN 0
    ELSE IF text[1] = MINUS THEN -AccumulateDigits(Tail(text), 0)
    ELSE IF text[1] = PLUS THEN AccumulateDigits(Tail(text), 0)
    ELSE AccumulateDigits(text, 0)

\* The pieces of a scanned float literal -?int(.frac)?([eE][+-]?exp)?: its
\* sign, the digits of int and frac as one run, the length of frac,
\* and the exponent.
float_parts_of(neg, mantissa, dot_at, exp_val) ==
    [neg |-> neg,
     digits |-> SubSeq(mantissa, 1, dot_at - 1) \o SubSeq(mantissa, dot_at + 1, Len(mantissa)),
     frac_len |-> IF dot_at > Len(mantissa) THEN 0 ELSE Len(mantissa) - dot_at,
     exp |-> exp_val]

float_parts_split(neg, rest, e_at) ==
    TheOne({float_parts_of(neg, mantissa, FirstIndexOf(mantissa, {DOT}),
                           SignedDigits(SubSeq(rest, e_at + 1, Len(rest)))) :
                mantissa \in {SubSeq(rest, 1, e_at - 1)}})

FloatParts(num_bytes) ==
    TheOne({float_parts_split(num_bytes[1] = MINUS, rest,
                              FirstIndexOf(rest, {Ord("e"), Ord("E")})) :
                rest \in {IF num_bytes[1] = MINUS THEN Tail(num_bytes) ELSE num_bytes}})

\* lexical_core::parse::<f64>: the double nearest to the literal.
float_of_decimal(neg, norm) == << "float", [neg |-> neg, mant |-> norm[1], exp |-> norm[2]] >>

\* The index of the last digit that is not '0', or 0.
LastNonZero(digits) ==
    IF \A k \in 1..Len(digits) : digits[k] = ZERO THEN 0
    ELSE MaxOf({k \in 1..Len(digits) : digits[k] # ZERO})

float_of_digits(neg, digits, last, exp) ==
    float_of_decimal(neg, NormalizeDecimal(AccumulateDigits(SubSeq(digits, 1, last), 0),
                                           exp + (Len(digits) - last)))

float_of_parts(parts) ==
    float_of_digits(parts.neg, parts.digits, LastNonZero(parts.digits),
                    parts.exp - parts.frac_len)
ParseFloat(num_bytes) == TheOne({float_of_parts(parts) : parts \in {FloatParts(num_bytes)}})

\* coef_str.trim_start_matches('0'), "0" when nothing is left.
TrimZeros(digits) ==
    IF \A k \in 1..Len(digits) : digits[k] = ZERO THEN << ZERO >>
    ELSE SubSeq(digits, MinOf({k \in 1..Len(digits) : digits[k] # ZERO}), Len(digits))

\* DirectParser::parse_number_as_decimal: %Decimal{sign, coef, exp}, the
\* coefficient (an integer of any size) held as its decimal digits.
decimal_of_parts(parts) ==
    << "decimal", [sign |-> IF parts.neg THEN -1 ELSE 1,
                   coef |-> TrimZeros(parts.digits),
                   exp |-> parts.exp - parts.frac_len] >>
parse_number_as_decimal(num_bytes) ==
    TheOne({decimal_of_parts(parts) : parts \in {FloatParts(num_bytes)}})

DigitLimitExceeded(limit, digit_count) == limit > 0 /\ digit_count > limit

\* An exponent marker in lower case only.
IsLowerCaseExponentMark(b) == b = Ord("e")

\* b'e' | b'E'
IsExponentMark(b) == b = Ord("e") \/ b = Ord("E")

\* The end of parse_number: the term of the scanned text input[start..pos).
number_value(num_bytes, pos, is_float, opts) ==
    IF is_float
    THEN IF opts.floats_decimals
         THEN Ok(parse_number_as_decimal(num_bytes), pos)
         ELSE Ok(ParseFloat(num_bytes), pos)
    ELSE Ok(integer_term(num_bytes), pos)

\* parse_number at the first exponent digit expected at offset pos.
number_exponent_digits(input, start, opts, pos) ==
    IF pos >= Len(input) \/ ~IsAsciiDigit(At(input, pos))
    THEN Err("Invalid number", start)
    ELSE TheOne({number_value(Slice(input, start, end), end, TRUE, opts) :
                    end \in {DigitRunEnd(input, pos)}})

\* parse_number after the fraction, at offset pos.
number_exponent(input, start, opts, pos, is_float) ==
    IF pos < Len(input) /\ IsExponentMark(At(input, pos))
    THEN number_exponent_digits(input, start, opts,
             IF pos + 1 < Len(input) /\ At(input, pos + 1) \in {PLUS, MINUS}
             THEN pos + 2
             ELSE pos + 1)
    ELSE TheOne({number_value(num_bytes, pos, is_float, opts) :
                    num_bytes \in {Slice(input, start, pos)}})

\* parse_number after the integer part input[int_digit_start..pos).
number_fraction(input, start, opts, int_digit_start, pos) ==
    IF DigitLimitExceeded(opts.integer_digit_limit, pos - int_digit_start)
    THEN Err("integer exceeds digit limit", start)
    ELSE IF pos < Len(input) /\ At(input, pos) = DOT
               /\ (pos + 1 >= Len(input) \/ ~IsAsciiDigit(At(input, pos + 1)))
    THEN Err("Invalid number", start)
    ELSE TheOne({number_exponent(input, start, opts, after,
                                 pos < Len(input) /\ At(input, pos) = DOT) :
                    after \in {IF pos < Len(input) /\ At(input, pos) = DOT
                               THEN DigitRunEnd(input, pos + 1)
                               ELSE pos}})

\* parse_number at the integer part expected at offset int_digit_start.
number_integer(input, start, opts, int_digit_start) ==
    IF int_digit_start >= Len(input) \/ ~IsAsciiDigit(At(input, int_digit_start))
    THEN Err("Invalid number", start)
    ELSE TheOne({number_fraction(input, start, opts, int_digit_start, pos) :
                    pos \in {IF At(input, int_digit_start) = ZERO
                             THEN int_digit_start + 1
                             ELSE DigitRunEnd(input, int_digit_start + 1)}})

\* DirectParser::parse_number at offset start.
parse_number(input, start, opts) ==
    number_integer(input, start, opts,
        IF start < Len(input) /\ At(input, start) = MINUS THEN start + 1 ELSE start)

\* parse_number_fast once the digit run input[digit_start..pos) is scanned:
\* floats, missing digits, leading zeros and over-long runs go to parse_number.
\* parse_number_fast without the fallback for a leading zero.
number_fast_leading_zero(input, start, opts, digit_start, pos) ==
    IF \/ pos < Len(input) /\ (At(input, pos) = DOT \/ IsExponentMark(At(input, pos)))
       \/ pos - digit_start = 0
       \/ DigitLimitExceeded(opts.integer_digit_limit, pos - digit_start)
    THEN parse_number(input, start, opts)
    ELSE Ok(<< "int", IF digit_start > start
                      THEN -AccumulateDigits(Slice(input, digit_start, pos), 0)
                      ELSE AccumulateDigits(Slice(input, digit_start, pos), 0) >>, pos)

number_fast_digits(input, start, opts, digit_start, pos) ==
    IF \/ pos < Len(input) /\ (At(input, pos) = DOT \/ IsExponentMark(At(input, pos)))
       \/ pos - digit_start = 0
       \/ pos - digit_start > 1 /\ At(input, digit_start) = ZERO
       \/ DigitLimitExceeded(opts.integer_digit_limit, pos - digit_start)
    THEN parse_number(input, start, opts)
    ELSE IF pos - digit_start <= FAST_DIGITS
    THEN Ok(<< "int", IF digit_start > start
                      THEN -AccumulateDigits(Slice(input, digit_start, pos), 0)
                      ELSE AccumulateDigits(Slice(input, digit_start, pos), 0) >>, pos)
    ELSE Ok(integer_term(Slice(input, start, pos)), pos)

number_fast_scan(input, start, opts, digit_start) ==
    TheOne({number_fast_digits(input, start, opts, digit_start, pos) :
                pos \in {DigitRunEnd(input, digit_start)}})

\* DirectParser::parse_number_fast at offset start.
parse_number_fast(input, start, opts) ==
    number_fast_scan(input, start, opts,
        IF start < Len(input) /\ At(input, start) = MINUS THEN start + 1 ELSE start)

\* parse_null, parse_true, parse_false: the literal `word` at offset pos.
parse_literal(input, pos, word, term, msg) ==
    IF pos + Len(word) <= Len(input) /\ Slice(input, pos, pos + Len(word)) = word
    THEN Ok(term, pos + Len(word))
    ELSE Err(msg, pos)

(***************************************************************************)
(* Whitespace and the structural index (direct_decode.rs)                  *)
(***************************************************************************)

MAX_DEPTH == 128
STRUCTURAL_INDEX_THRESHOLD == 256

RECURSIVE scalar_skip_whitespace(_, _)
scalar_skip_whitespace(input, pos) ==
    IF pos < Len(input) /\ IsWhitespace(At(input, pos))
    THEN scalar_skip_whitespace(input, pos + 1)
    ELSE pos

\* DirectParser::skip_whitespace: the chunked scan, then the scalar tail.
skip_whitespace(input, pos) == scalar_skip_whitespace(input, simd_skip_whitespace(input, pos))

IsStructural(b) == b \in {LBRACE, RBRACE, LBRACKET, RBRACKET, COLON, COMMA}

\* simd_utils::chunk_has_structural over the CHUNK bytes at pos.
chunk_has_structural(input, pos) ==
    \E k \in 0..(CHUNK - 1) :
        LET b == At(input, pos + k)
        IN  IsStructural(b) \/ b = QUOTE \/ b = BACKSLASH

\* The byte-by-byte state machine of build_structural_index over [pos, end).
RECURSIVE index_scalar(_, _, _, _)
index_scalar(input, pos, end, state) ==
    IF pos >= end THEN state
    ELSE TheOne({
             IF st.prev_escape
             THEN index_scalar(input, pos + 1, end, [st EXCEPT !.prev_escape = FALSE])
             ELSE IF b = BACKSLASH /\ st.in_string
             THEN index_scalar(input, pos + 1, end, [st EXCEPT !.prev_escape = TRUE])
             ELSE IF b = QUOTE
             THEN index_scalar(input, pos + 1, end, [st EXCEPT !.in_string = ~st.in_string])
             ELSE IF ~st.in_string /\ IsStructural(b)
             THEN index_scalar(input, pos + 1, end,
                               [st EXCEPT !.positions = Append(st.positions, pos)])
             ELSE index_scalar(input, pos + 1, end, st)
             : b \in {At(input, pos)}, st \in {state}})

\* A round that skips a chunk without structural bytes whatever the last
\* byte before it was.
index_chunk_unescaped(input, pos, st) ==
    IF ~chunk_has_structural(input, pos)
    THEN st
    ELSE index_scalar(input, pos, pos + CHUNK, st)

\* One round of the 16-byte pass: a chunk without structural bytes is
\* skipped, any other goes through the state machine.
index_chunk(input, pos, st) ==
    IF ~chunk_has_structural(input, pos) /\ ~st.prev_escape
    THEN st
    ELSE index_scalar(input, pos, pos + CHUNK, st)

\* The 16-byte pass over the n chunks from chunk number k on, the state
\* handed from each chunk to the next.
RECURSIVE index_chunks(_, _, _, _)
index_chunks(input, k, n, st) ==
    IF n = 0 THEN st
    ELSE IF n = 1 THEN index_chunk(input, k * CHUNK, st)
    ELSE TheOne({index_chunks(input, k + (n \div 2), n - (n \div 2), mid) :
                     mid \in {index_chunks(input, k, n \div 2, st)}})

\* The 16-byte pass followed by the scalar tail.
build_structural_index(input) ==
    index_scalar(input, (Len(input) \div CHUNK) * CHUNK, Len(input),
                 index_chunks(input, 0, Len(input) \div CHUNK,
                              [positions |-> << >>, in_string |-> FALSE,
                               prev_escape |-> FALSE])).positions

\* The index held by DirectParser::new: absent below the threshold.
NoIndex == [present |-> FALSE, positions |-> << >>]
new_structural_index(input) ==
    IF Len(input) >= STRUCTURAL_INDEX_THRESHOLD
    THEN [present |-> TRUE, positions |-> build_structural_index(input)]
    ELSE NoIndex

\* A jump to the next indexed offset whatever lies in between.
advance_to_structural_unchecked(input, pos, idx, cur) ==
    IF idx.present /\ cur < Len(idx.positions) /\ idx.positions[cur + 1] >= pos
    THEN idx.positions[cur + 1]
    ELSE skip_whitespace(input, pos)

\* DirectParser::advance_to_structural: the position it leaves in self.pos.
advance_to_structural(input, pos, idx, cur) ==
    IF idx.present /\ cur < Len(idx.positions)
       /\ idx.positions[cur + 1] >= pos
       /\ \A p \in pos..(idx.positions[cur + 1] - 1) : IsWhitespace(At(input, p))
    THEN idx.positions[cur + 1]
    ELSE skip_whitespace(input, pos)

\* A consume that moves the byte cursor alone.
consume_without_advance(idx, cur) == cur

\* StructuralIndex::advance as called by consume_structural: the cursor moves
\* only when an index is present.
consume_cursor(idx, cur) == IF idx.present THEN cur + 1 ELSE cur

\* peek(): the byte at pos, or -1 for None.
Peek(input, pos) == IF pos < Len(input) THEN At(input, pos) ELSE -1

(***************************************************************************)
(* The encoder (direct_json.rs)                                            *)
(***************************************************************************)

EscapeModes == {"json", "html_safe", "unicode_safe", "javascript_safe"}

\* write_escape_byte: the escape sequence of one byte.
write_escape_byte(byte) ==
    IF byte = QUOTE THEN << BACKSLASH, QUOTE >>
    ELSE IF byte = BACKSLASH THEN << BACKSLASH, BACKSLASH >>
    ELSE IF byte = LF THEN << BACKSLASH, Ord("n") >>
    ELSE IF byte = CR THEN << BACKSLASH, Ord("r") >>
    ELSE IF byte = TAB THEN << BACKSLASH, Ord("t") >>
    ELSE IF byte = 8 THEN << BACKSLASH, Ord("b") >>
    ELSE IF byte = 12 THEN << BACKSLASH, Ord("f") >>
    ELSE << BACKSLASH, Ord("u") >> \o FormatHex04(byte)

\* The U+2028 / U+2029 test shared by the html and javascript writers:
\* 168 or 169 when bytes[pos..] is E2 80 A8 / E2 80 A9, else 0.
LineSeparatorAt(bytes, pos) ==
    IF At(bytes, pos) >= 226 /\ pos + 2 < Len(bytes) /\ At(bytes, pos) = 226
          /\ At(bytes, pos + 1) = 128 /\ At(bytes, pos + 2) \in {168, 169}
    THEN At(bytes, pos + 2)
    ELSE 0

\* Writing the whole character at pos unescaped.
WholeChar(bytes, pos) ==
    LET end == IF pos + utf8_char_len(At(bytes, pos)) < Len(bytes)
               THEN pos + utf8_char_len(At(bytes, pos))
               ELSE Len(bytes)
    IN  [out |-> Slice(bytes, pos, end), pos |-> end]

\* The HTML-special arm with the slash left as it is.
html_special_slash_verbatim(b) ==
    IF b = Ord("<") THEN Bytes(<< "\\", "u", "0", "0", "3", "c" >>)
    ELSE IF b = Ord(">") THEN Bytes(<< "\\", "u", "0", "0", "3", "e" >>)
    ELSE IF b = Ord("&") THEN Bytes(<< "\\", "u", "0", "0", "2", "6" >>)
    ELSE IF b = SLASH THEN << SLASH >>
    ELSE << >>

\* The HTML-special ASCII arm of write_escape_html: what is written for b,
\* nothing for any other byte.
html_special(b) ==
    IF b = Ord("<") THEN Bytes(<< "\\", "u", "0", "0", "3", "c" >>)
    ELSE IF b = Ord(">") THEN Bytes(<< "\\", "u", "0", "0", "3", "e" >>)
    ELSE IF b = Ord("&") THEN Bytes(<< "\\", "u", "0", "0", "2", "6" >>)
    ELSE IF b = SLASH THEN << BACKSLASH, SLASH >>
    ELSE << >>

\* write_escape_html / write_escape_javascript_at: [out, pos] for the event at pos.
write_escape_html(bytes, pos) ==
    LET b == At(bytes, pos)
    IN  IF NeedsJsonEscape(b) THEN [out |-> write_escape_byte(b), pos |-> pos + 1]
        ELSE IF html_special(b) # << >> THEN [out |-> html_special(b), pos |-> pos + 1]
        ELSE IF LineSeparatorAt(bytes, pos) = 168
        THEN [out |-> Bytes(<< "\\", "u", "2", "0", "2", "8" >>), pos |-> pos + 3]
        ELSE IF LineSeparatorAt(bytes, pos) = 169
        THEN [out |-> Bytes(<< "\\", "u", "2", "0", "2", "9" >>), pos |-> pos + 3]
        ELSE WholeChar(bytes, pos)

write_escape_javascript_at(bytes, pos) ==
    LET b == At(bytes, pos)
    IN  IF NeedsJsonEscape(b) THEN [out |-> write_escape_byte(b), pos |-> pos + 1]
        ELSE IF LineSeparatorAt(bytes, pos) = 168
        THEN [out |-> Bytes(<< "\\", "u", "2", "0", "2", "8" >>), pos |-> pos + 3]
        ELSE IF LineSeparatorAt(bytes, pos) = 169
        THEN [out |-> Bytes(<< "\\", "u", "2", "0", "2", "9" >>), pos |-> pos + 3]
        ELSE WholeChar(bytes, pos)

\* What write_escape_unicode_at writes for the char with code point cp:
\* write!(writer, "\\u{:04x}", ch as u32).
UnicodeEscapeOf(cp) == << BACKSLASH, Ord("u") >> \o FormatHex04(cp)

write_escape_unicode_at(bytes, pos) ==
    LET b == At(bytes, pos)
    IN  IF NeedsJsonEscape(b) THEN [out |-> write_escape_byte(b), pos |-> pos + 1]
        ELSE IF b >= 128
        THEN LET whole == WholeChar(bytes, pos)
             IN  [out |-> IF from_utf8_ok(whole.out, 0)
                          THEN UnicodeEscapeOf(DecodeUtf8At(whole.out, 0))
                          ELSE << >>,
                  pos |-> whole.pos]
        ELSE [out |-> << b >>, pos |-> pos + 1]

write_escape_at(mode, bytes, pos) ==
    IF mode = "json" THEN [out |-> write_escape_byte(At(bytes, pos)), pos |-> pos + 1]
    ELSE IF mode = "html_safe" THEN write_escape_html(bytes, pos)
    ELSE IF mode = "unicode_safe" THEN write_escape_unicode_at(bytes, pos)
    ELSE write_escape_javascript_at(bytes, pos)

find_next_escape(mode, bytes, pos) ==
    IF mode = "json" THEN find_escape_json(bytes, pos) ELSE find_escape_mode(mode, bytes, pos)

\* The loop of write_json_string_escaped from pos on.
RECURSIVE escape_loop(_, _, _, _)
escape_loop(mode, bytes, pos, out) ==
    IF pos >= Len(bytes) THEN out
    ELSE LET next == find_next_escape(mode, bytes, pos)
             plain == out \o Slice(bytes, pos, next)
         IN  IF next >= Len(bytes) THEN plain
             ELSE LET ev == write_escape_at(mode, bytes, next)
                  IN  escape_loop(mode, bytes, ev.pos, plain \o ev.out)

write_json_string_escaped(s, escape_mode) ==
    << QUOTE >> \o escape_loop(escape_mode, s, 0, << >>) \o << QUOTE >>

\* The decimal digits of n > 0, most significant first.
RECURSIVE DecDigits(_)
DecDigits(n) == IF n = 0 THEN << >> ELSE Append(DecDigits(n \div 10), ZERO + (n % 10))

\* itoa::Buffer::format(n)
itoa_format(n) ==
    IF n = 0 THEN << ZERO >>
    ELSE IF n < 0 THEN << MINUS >> \o DecDigits(-n)
    ELSE DecDigits(n)

Zeros(n) == [i \in 1..n |-> ZERO]

\* ryu::Buffer::format(f) of the finite double f = (-1)^neg * mant * 10^exp:
\* plain notation while the decimal point lies within 16 digits of the
\* first digit or at most 5 zeros from it, scientific notation otherwise.
ryu_format(f) ==
    LET digits == DecDigits(f.mant)
        length == Len(digits)
        kk == length + f.exp
        sign == IF f.neg THEN << MINUS >> ELSE << >>
        body == IF f.mant = 0 THEN << ZERO, DOT, ZERO >>
                ELSE IF f.exp >= 0 /\ kk <= 16
                THEN digits \o Zeros(f.exp) \o << DOT, ZERO >>
                ELSE IF kk > 0 /\ kk <= 16
                THEN SubSeq(digits, 1, kk) \o << DOT >> \o SubSeq(digits, kk + 1, length)
                ELSE IF kk > -5 /\ kk <= 0
                THEN << ZERO, DOT >> \o Zeros(-kk) \o digits
                ELSE IF length = 1
                THEN digits \o << Ord("e") >> \o itoa_format(kk - 1)
                ELSE << digits[1], DOT >> \o Tail(digits) \o << Ord("e") >>
                         \o itoa_format(kk - 1)
    IN  sign \o body

write_integer(n) == itoa_format(n)

\* A float written by its digits alone, without point or exponent.
write_float_bare(f) == (IF f.neg THEN << MINUS >> ELSE << >>) \o itoa_format(f.mant)

write_float(f) == ryu_format(f)

\* write_atom: true, false and nil | null are literals, other atoms strings.
write_atom(name, escape_mode) ==
    IF name = "true" THEN Bytes(<< "t", "r", "u", "e" >>)
    ELSE IF name = "false" THEN Bytes(<< "f", "a", "l", "s", "e" >>)
    ELSE IF name \in {"nil", "null"} THEN Bytes(<< "n", "u", "l", "l" >>)
    ELSE write_json_string_escaped(Bytes(<< name >>), escape_mode)

\* Byte-wise order of two byte strings (the term order of binaries).
RECURSIVE BytesLess(_, _)
BytesLess(a, b) ==
    IF b = << >> THEN FALSE
    ELSE IF a = << >> THEN TRUE
    ELSE IF Head(a) # Head(b) THEN Head(a) < Head(b)
    ELSE BytesLess(Tail(a), Tail(b))

\* MapIterator over a small map: the keys in term order.
RECURSIVE MapKeysInOrder(_)
MapKeysInOrder(keys) ==
    IF keys = {} THEN << >>
    ELSE LET least == CHOOSE k \in keys : \A other \in keys \ {k} : BytesLess(k, other)
         IN  << least >> \o MapKeysInOrder(keys \ {least})

\* FormatOptions::write_newline at nesting depth d.
Repeat(bytes, n) == [i \in 1..(Len(bytes) * n) |-> bytes[((i - 1) % Len(bytes)) + 1]]

\* A line break that is not followed by the indentation.
write_newline_unindented(opts, d) == IF opts.pretty THEN opts.line_separator ELSE << >>

write_newline(opts, d) ==
    IF opts.pretty THEN opts.line_separator \o Repeat(opts.indent, d) ELSE << >>

write_space(opts) == IF opts.pretty THEN opts.after_colon ELSE << >>

EncOk(out) == [ok |-> TRUE, out |-> out]
EncErr(msg) == [ok |-> FALSE, msg |-> msg]

\* The check term_to_json makes of opts.depth.
EncoderDepthExceeded(d) == d > MAX_DEPTH

IsContainer(term) == term[1] \in {"list", "map", "keyed"}

\* i128::MAX in decimal digits.
I128_MAX == Str("170141183460469231731687303715884105727")

\* Whether a non-negative integer given by its digits is at most the one
\* given by limit.
DigitsAtMost(digits, limit) ==
    \/ Len(digits) < Len(limit)
    \/ /\ Len(digits) = Len(limit)
       /\ \/ digits = limit
          \/ \E k \in {MinOf({i \in 1..Len(limit) : digits[i] # limit[i]} \cup {Len(limit)})} :
                 digits[k] < limit[k]

\* coef_term.decode::<i128>() of a non-negative coefficient; the exponents
\* and signs of the model all decode as i32.
decode_i128_ok(digits) == DigitsAtMost(digits, I128_MAX)

\* format_decimal(coef, exp, sign), coef_str the digits of coef.
format_decimal(coef_str, exp, sign) ==
    (IF sign < 0 THEN << MINUS >> ELSE << >>)
    \o (IF exp >= 0
        THEN coef_str \o Zeros(exp)
        ELSE IF -exp >= Len(coef_str)
        THEN << ZERO, DOT >> \o Zeros((-exp) - Len(coef_str)) \o coef_str
        ELSE SubSeq(coef_str, 1, Len(coef_str) + exp) \o << DOT >>
             \o SubSeq(coef_str, Len(coef_str) + exp + 1, Len(coef_str)))

\* try_format_decimal: the text of a %Decimal{}, or None.
try_format_decimal(d) ==
    IF decode_i128_ok(d.coef)
    THEN [some |-> TRUE, text |-> format_decimal(d.coef, d.exp, d.sign)]
    ELSE [some |-> FALSE]

\* write_map of a struct: a %Decimal{} that try_format_decimal gives no text
\* for is written by write_map_unsorted as the map of its fields (the key
\* __struct__ is skipped), here in the term order of the keys.
write_map_fields(term) ==
    IF term[1] = "decimal" /\ ~try_format_decimal(term[2]).some
    THEN << "keyed", << << << "atom", "coef" >>, << "bigint", term[2].coef >> >>,
                        << << "atom", "exp" >>, << "int", term[2].exp >> >>,
                        << << "atom", "sign" >>, << "int", term[2].sign >> >> >> >>
    ELSE term

\* term_to_json of a term that is no list and no map: the bytes written, or
\* the error.
write_scalar(term, opts) ==
    IF term[1] = "atom" THEN EncOk(write_atom(term[2], opts.escape))
    ELSE IF term[1] = "binary"
    THEN IF from_utf8_ok(term[2], 0)
         THEN EncOk(write_json_string_escaped(term[2], opts.escape))
         ELSE EncErr("Failed to decode binary")
    ELSE IF term[1] = "int" THEN EncOk(write_integer(term[2]))
    ELSE IF term[1] = "bigint" THEN EncOk(term[2])
    ELSE IF term[1] = "decimal"
    THEN EncOk(write_json_string_escaped(try_format_decimal(term[2]).text, opts.escape))
    ELSE IF term[1] = "float" THEN EncOk(write_float(term[2]))
    ELSE EncErr("Unsupported term type")

\* The key terms of a map in iteration order (no map of the model has the
\* key __struct__, which the writer would skip).
KeyTerms(term) ==
    IF term[1] = "map"
    THEN [i \in 1..Cardinality(DOMAIN term[2]) |->
             << "binary", MapKeysInOrder(DOMAIN term[2])[i] >>]
    ELSE IF term[1] = "keyed" THEN [i \in 1..Len(term[2]) |-> term[2][i][1]]
    ELSE << >>

\* The call of write_list or write_map_unsorted that is writing item i of
\* term; keys are the keys of a map in iteration order, seen the seen_keys
\* of the call (used with strict_keys only).
WriterFrame(term) ==
    [kind |-> "writer", term |-> term, i |-> 1, keys |-> KeyTerms(term), seen |-> {}]

ItemCount(frame) ==
    IF frame.term[1] = "list" THEN Len(frame.term[2]) ELSE Len(frame.keys)

ItemOf(frame) ==
    IF frame.term[1] = "list" THEN frame.term[2][frame.i]
    ELSE IF frame.term[1] = "map" THEN frame.term[2][frame.keys[frame.i][2]]
    ELSE frame.term[2][frame.i][2]

\* The key string write_map_unsorted writes for a key: the name of an atom,
\* the bytes of a UTF-8 binary, the decimal digits of an integer.
key_text(key) ==
    IF key[1] = "atom" THEN EncOk(Str(key[2]))
    ELSE IF key[1] = "binary"
    THEN IF from_utf8_ok(key[2], 0) THEN EncOk(key[2])
         ELSE EncErr("Non-UTF8 binary as map key")
    ELSE IF key[1] = "int" THEN EncOk(itoa_format(key[2]))
    ELSE EncErr("Map key must be atom, string, or integer")

\* A strict-key check that never finds a key.
check_strict_key_off(strict, seen, text) == FALSE

\* check_strict_key: with strict_keys, whether the key string is already in
\* seen_keys.  (The error message goes on with the key.)
check_strict_key(strict, seen, text) == strict /\ text \in seen

\* What a map writes ahead of the value of the entry with this key: the key
\* string, ':' and the pretty-printer's space, with the seen_keys after it;
\* or the error.
write_key_text(text, seen, opts) ==
    IF ~text.ok THEN text
    ELSE IF check_strict_key(opts.strict_keys, seen, text.out)
    THEN EncErr("duplicate key")
    ELSE [ok |-> TRUE,
          out |-> write_json_string_escaped(text.out, opts.escape)
                      \o << COLON >> \o write_space(opts),
          seen |-> IF opts.strict_keys THEN seen \cup {text.out} ELSE seen]

\* What the container of frame writes ahead of its item i: a list nothing.
write_key(frame, i, opts) ==
    IF frame.term[1] = "list" THEN [ok |-> TRUE, out |-> << >>, seen |-> frame.seen]
    ELSE write_key_text(key_text(frame.keys[i]), frame.seen, opts)

OpenOf(term) == IF term[1] = "list" THEN << LBRACKET >> ELSE << LBRACE >>
CloseOf(term) == IF term[1] = "list" THEN << RBRACKET >> ELSE << RBRACE >>
IsEmptyContainer(term) ==
    IF term[1] = "map" THEN DOMAIN term[2] = {} ELSE term[2] = << >>

\* get_opt: the value of key in an option map, or the default.
get_opt(map, key, default) == IF key \in DOMAIN map THEN map[key] ELSE default

\* An option map without entries.
NoOptions == [key \in {} |-> 0]

\* indent_size when the option map has no indent (None).
NoIndent == -1

\* FormatContext::default.
DefaultFormatContext ==
    [line_separator |-> << LF >>, after_colon |-> << SPACE >>, indent |-> << SPACE, SPACE >>]

\* `Some(n) if n > 0` of encode_direct_impl: which indent sizes give
\* FormatOptions::pretty.
PrettyFor(indent_size) == indent_size > 0

\* The FormatContext encode_direct_impl builds from pretty_opts and indent.
format_context(pretty_opts, indent_size) ==
    [line_separator |-> get_opt(pretty_opts, "line_separator",
                                DefaultFormatContext.line_separator),
     after_colon |-> get_opt(pretty_opts, "after_colon", DefaultFormatContext.after_colon),
     indent |-> IF "indent" \in DOMAIN pretty_opts THEN pretty_opts["indent"]
                ELSE IF indent_size > 0 THEN [i \in 1..indent_size |-> SPACE]
                ELSE DefaultFormatContext.indent]

\* encode_direct_impl: the FormatOptions, with the fields of its context,
\* unpacked from the option map of the call.
encode_options_of(opts_map, ctx, indent_size) ==
    [escape |-> get_opt(opts_map, "escape", "json"),
     pretty |-> PrettyFor(indent_size),
     strict_keys |-> get_opt(opts_map, "strict_keys", FALSE),
     indent |-> ctx.indent, line_separator |-> ctx.line_separator,
     after_colon |-> ctx.after_colon]

encode_direct_options(opts_map) ==
    encode_options_of(opts_map,
                      format_context(get_opt(opts_map, "pretty_opts", NoOptions),
                                     get_opt(opts_map, "indent", NoIndent)),
                      get_opt(opts_map, "indent", NoIndent))

\* The encode options of encode_direct_impl left at their defaults.
DefaultFormatOptions == encode_direct_options(NoOptions)

(***************************************************************************)
(* Building objects (direct_decode.rs)                                     *)
(***************************************************************************)

MAX_INTERN_KEYS == 4096

DefaultDecodeOptions ==
    [intern_keys |-> FALSE, floats_decimals |-> FALSE, ordered_objects |-> FALSE,
     integer_digit_limit |-> 1024, max_bytes |-> 0, reject_duplicate_keys |-> FALSE,
     validate_strings |-> TRUE]

\* Term::map_from_term_arrays: a map, unless two keys are equal terms.
map_from_term_arrays(keys, values) ==
    IF \E i, j \in 1..Len(keys) : i < j /\ keys[i] = keys[j]
    THEN [ok |-> FALSE]
    ELSE [ok |-> TRUE,
          term |-> << "map", [k \in {keys[i][2] : i \in 1..Len(keys)} |->
                                values[CHOOSE i \in 1..Len(keys) : keys[i][2] = k]] >>]

\* A map that keeps the value of the first occurrence of a repeated key.
build_map_first_wins(keys, values) ==
    << "map", [k \in {keys[i][2] : i \in 1..Len(keys)} |->
                  values[MinOf({i \in 1..Len(keys) : keys[i][2] = k})]] >>

\* The loop of build_map_with_duplicates from entry i on: a repeated key
\* overwrites the value at the position of its first occurrence.
RECURSIVE dedup_loop(_, _, _, _, _)
dedup_loop(keys, values, i, final_keys, final_values) ==
    IF i > Len(keys) THEN [keys |-> final_keys, values |-> final_values]
    ELSE IF \E e \in 1..Len(final_keys) : final_keys[e][2] = keys[i][2]
    THEN LET existing_idx == CHOOSE e \in 1..Len(final_keys) : final_keys[e][2] = keys[i][2]
         IN  dedup_loop(keys, values, i + 1, final_keys,
                        [final_values EXCEPT ![existing_idx] = values[i]])
    ELSE dedup_loop(keys, values, i + 1, Append(final_keys, keys[i]),
                    Append(final_values, values[i]))

build_map_with_duplicates(keys, values) ==
    LET final == dedup_loop(keys, values, 1, << >>, << >>)
    IN  map_from_term_arrays(final.keys, final.values).term

\* An ordered object that keeps one entry per key.
build_ordered_object_deduplicated(keys, values) ==
    << "ordered", [i \in 1..Len(dedup_loop(keys, values, 1, << >>, << >>).keys) |->
                      << dedup_loop(keys, values, 1, << >>, << >>).keys[i],
                         dedup_loop(keys, values, 1, << >>, << >>).values[i] >>] >>

\* build_ordered_object: the list of {key, value} tuples in order.
build_ordered_object(keys, values) ==
    << "ordered", [i \in 1..Len(keys) |-> << keys[i], values[i] >>] >>

\* The term every object path returns for its keys and values.
build_object(keys, values, opts) ==
    IF opts.ordered_objects THEN build_ordered_object(keys, values)
    ELSE LET fast == map_from_term_arrays(keys, values)
         IN  IF fast.ok THEN fast.term ELSE build_map_with_duplicates(keys, values)

\* KeyShape, and its absence.
NoShape == [some |-> FALSE]
KeyShape(raw_keys, key_terms, is_flat) ==
    [some |-> TRUE, raw_keys |-> raw_keys, key_terms |-> key_terms, is_flat |-> is_flat]

\* parse_key without the check of cache.len().
intern_key_uncapped(cache, raw, opts) ==
    IF opts.intern_keys /\ ~(\E k \in 1..Len(raw) : raw[k] = BACKSLASH)
    THEN cache \cup {raw}
    ELSE cache

\* The key cache after parse_key has parsed the key with raw text raw.
intern_key(cache, raw, opts) ==
    IF opts.intern_keys /\ ~(\E k \in 1..Len(raw) : raw[k] = BACKSLASH)
          /\ Cardinality(cache) < MAX_INTERN_KEYS
    THEN cache \cup {raw}
    ELSE cache

\* A duplicate check that never finds a key.
NeverSeen(seen, raw_key) == FALSE

\* !seen.insert(raw_key): the raw bytes of the key are already in the set.
AlreadySeen(seen, raw_key) == raw_key \in seen

\* One object entry up to its value: parse_key at p, the duplicate check
\* against seen, then ':' and the whitespace after it.
entry_colon(input, key, raw_key, colon, idx, cur) ==
    IF Peek(input, colon) # COLON THEN Err("Expected ':'", colon)
    ELSE [ok |-> TRUE, key |-> key.term, raw_key |-> raw_key,
          pos |-> skip_whitespace(input, colon + 1),
          cursor |-> consume_cursor(idx, cur)]

entry_key(input, p, key, idx, cur, check_seen, seen) ==
    IF ~key.ok THEN key
    ELSE IF check_seen /\ AlreadySeen(seen, Slice(input, p + 1, key.pos - 1))
    THEN Err("Duplicate key in object", key.pos)
    ELSE TheOne({entry_colon(input, key, Slice(input, p + 1, key.pos - 1), colon, idx, cur) :
                    colon \in {advance_to_structural(input, key.pos, idx, cur)}})

parse_entry_head(input, p, idx, cur, opts, check_seen, seen) ==
    IF Peek(input, p) # QUOTE THEN Err("Expected string key", p)
    ELSE TheOne({entry_key(input, p, key, idx, cur, check_seen, seen) :
                    key \in {parse_string_impl(input, p, opts)}})

IsContainerOpen(b) == b = LBRACE \/ b = LBRACKET
IsNumberStart(b) == IsAsciiDigit(b) \/ b = MINUS

\* parse_value / parse_value_flat / parse_number_fast / parse_string on the
\* byte b at offset p, which opens no container.
scalar_at(input, p, b, h, opts) ==
    IF h = "number_fast" \/ (h = "flat" /\ IsNumberStart(b))
    THEN parse_number_fast(input, p, opts)
    ELSE IF h = "string" \/ b = QUOTE THEN parse_string_impl(input, p, opts)
    ELSE IF b = Ord("n")
    THEN parse_literal(input, p, Str("null"), NIL, "Expected 'null'")
    ELSE IF b = Ord("t")
    THEN parse_literal(input, p, Str("true"), << "atom", "true" >>, "Expected 'true'")
    ELSE IF b = Ord("f")
    THEN parse_literal(input, p, Str("false"), << "atom", "false" >>, "Expected 'false'")
    ELSE IF IsNumberStart(b) THEN parse_number(input, p, opts)
    ELSE IF b = -1 THEN Err("Unexpected end of input", p)
    ELSE Err("Unexpected character", p)

parse_scalar(input, p, h, opts) == scalar_at(input, p, Peek(input, p), h, opts)

(***************************************************************************)
(* The decoder as a state machine.  The call stack of the recursive        *)
(* descent is the sequence stack of frames, one per open parse_array,      *)
(* parse_object, parse_object_capture_shape or parse_object_shaped call.   *)
(***************************************************************************)

VARIABLES
    input,             \* the bytes being decoded
    opts,              \* DecodeOptions
    fopts,             \* FormatOptions of the encode call
    source,            \* the term handed to encode, or NoTerm
    round,             \* 0 while decoding a given input, 1 while decoding encode's
                       \* output, 2 while decoding the given input without its
                       \* index, 3 while decoding it without key shapes
    pos,               \* DirectParser.pos
    depth,             \* DirectParser.depth
    structural_index,  \* DirectParser.structural_index
    cursor,            \* StructuralIndex.cursor
    key_cache,         \* DirectParser.key_cache: the raw keys interned so far
    stack,             \* the open containers, innermost last
    pc,                \* "encode", "new", "parse", "value", "return" or "done"
    how,               \* at pc = "value": the parser the caller dispatches to
    ret,               \* at pc = "return": the term the callee returned
    result,            \* the outcome of decode, or Pending
    parsed,            \* how often a value parser was called at each offset
    nif_writer,        \* the NifBinaryWriter of a run of the output writer
    first_result,      \* in rounds 2 and 3: the outcome of round 0, or Pending
    family             \* the family of inputs the run was drawn from

vars == << input, opts, fopts, source, round, pos, depth, structural_index, cursor,
           key_cache, stack, pc, how, ret, result, parsed, nif_writer, first_result,
           family >>

NoTerm == << "none" >>
Pending == [ok |-> FALSE, msg |-> "pending", at |-> -1]

\* A depth check that lets one level too many through.
DepthExceededOffByOne(d) == d > MAX_DEPTH + 1

\* The check each container parser makes after self.depth += 1.
DepthExceeded(d) == d > MAX_DEPTH

ArrayFrame(shape) ==
    [kind |-> "array", elements |-> << >>, shape |-> shape, elem_class |-> -1]

ObjectFrame(capture, obj_start, key, raw_key, is_flat) ==
    [kind |-> "object", capture |-> capture, obj_start |-> obj_start,
     keys |-> << key >>, raw_keys |-> << raw_key >>, values |-> << >>,
     seen |-> {raw_key}, is_flat |-> is_flat]

\* A frame that takes the offset after the '{' for the start of the object.
ShapedFrameAfterBrace(obj_start, saved_cursor) ==
    [kind |-> "shaped", obj_start |-> obj_start + 1, saved_cursor |-> saved_cursor,
     values |-> << >>]

ShapedFrame(obj_start, saved_cursor) ==
    [kind |-> "shaped", obj_start |-> obj_start, saved_cursor |-> saved_cursor,
     values |-> << >>]

Top == stack[Len(stack)]
Pop == SubSeq(stack, 1, Len(stack) - 1)
ReplaceTop(frame) == [stack EXCEPT ![Len(stack)] = frame]

\* The shape variable of the parse_array call that is parsing an element.
CurrentShape ==
    IF stack # << >> /\ Top.kind = "array" THEN Top.shape ELSE NoShape

Static ==
    UNCHANGED << input, opts, fopts, source, round, structural_index, nif_writer,
                 first_result, family >>

\* The decode call ends with the error e.
Fail(e, p, d, c) ==
    /\ result' = e
    /\ pc' = "done"
    /\ pos' = p /\ depth' = d /\ cursor' = c
    /\ UNCHANGED << stack, how, ret, parsed >>
    /\ Static

\* The running call returns term to its caller.
Return(term, p, d, c, stk) ==
    /\ ret' = term
    /\ pc' = "return"
    /\ pos' = p /\ depth' = d /\ cursor' = c /\ stack' = stk
    /\ UNCHANGED << how, result, parsed >>
    /\ Static

\* No call yet.
NoCalls == [p \in {} |-> 0]

\* One more call of a value parser (parse_value, parse_value_flat,
\* parse_object_shaped, or the parse_object of a rewind) at offset p.
Called(calls, p) ==
    [q \in DOMAIN calls \cup {p} |->
        IF q = p THEN (IF p \in DOMAIN calls THEN calls[p] ELSE 0) + 1 ELSE calls[q]]

\* The running call dispatches to the parser h for the value at p.
Call(h, p, d, c, stk) ==
    /\ how' = h
    /\ parsed' = Called(parsed, p)
    /\ pc' = "value"
    /\ pos' = p /\ depth' = d /\ cursor' = c /\ stack' = stk
    /\ UNCHANGED << ret, result >>
    /\ Static

\* json_to_term: the max_bytes check, then DirectParser::new.
New ==
    /\ pc = "new"
    /\ IF opts.max_bytes > 0 /\ Len(input) > opts.max_bytes
       THEN /\ result' = Err("input size exceeds max_bytes limit", 0)
            /\ pc' = "done"
            /\ UNCHANGED << pos, depth, structural_index, cursor, key_cache, stack >>
       ELSE /\ structural_index' = new_structural_index(input)
            /\ pos' = 0 /\ depth' = 0 /\ cursor' = 0
            /\ key_cache' = {} /\ stack' = << >>
            /\ pc' = "parse"
            /\ UNCHANGED result
    /\ parsed' = NoCalls
    /\ UNCHANGED << input, opts, fopts, source, round, how, ret, nif_writer, first_result,
                    family >>

\* DirectParser::parse up to its call of parse_value.
Parse ==
    /\ pc = "parse"
    /\ Call("value", skip_whitespace(input, pos), depth, cursor, stack)
    /\ UNCHANGED key_cache

\* Which parser a value position leads to.
OpensArray == how \in {"value", "flat"} /\ Peek(input, pos) = LBRACKET
OpensObject ==
    \/ how \in {"value", "flat"} /\ Peek(input, pos) = LBRACE
    \/ how = "object"
    \/ how = "shaped" /\ ~CurrentShape.some
OpensShaped == how = "shaped" /\ CurrentShape.some

\* A value that opens no container: literal, string or number.
ParseScalar ==
    /\ pc = "value"
    /\ ~OpensArray /\ ~OpensObject /\ ~OpensShaped
    /\ \E r \in {parse_scalar(input, pos, how, opts)} :
           IF r.ok THEN Return(r.term, r.pos, depth, cursor, stack)
           ELSE Fail(r, pos, depth, cursor)
    /\ UNCHANGED key_cache

\* What parse_array hands a first element that is an object to:
\* parse_object_shaped, which captures its shape.  In round 3 it is
\* parse_object, so that no array ever has a shape.
FirstObjectParser(r) == IF r = 3 THEN "value" ELSE "shaped"

\* parse_array up to its first element.
ArrayOpen ==
    /\ pc = "value"
    /\ OpensArray
    /\ \E p \in {skip_whitespace(input, pos + 1)},
          c \in {consume_cursor(structural_index, cursor)} :
           IF DepthExceeded(depth + 1)
           THEN Fail(Err("Nesting depth exceeds maximum", pos), pos, depth + 1, cursor)
           ELSE IF Peek(input, p) = RBRACKET
           THEN Return(<< "list", << >> >>, p + 1, depth,
                       consume_cursor(structural_index, c), stack)
           ELSE Call(IF Peek(input, p) = LBRACE THEN FirstObjectParser(round) ELSE "value",
                     p, depth + 1, c, Append(stack, ArrayFrame(NoShape)))
    /\ UNCHANGED key_cache

\* The element class parse_array derives from the second element's first byte.
ElemClass(b) == IF IsNumberStart(b) THEN 1 ELSE IF b = QUOTE THEN 2 ELSE 0

\* The parse_array frame once element number Len(elements) is in and the
\* next one starts with byte b.
NextElemFrame(frame, elements, b) ==
    [frame EXCEPT !.elements = elements,
                  !.elem_class = IF @ = -1 THEN ElemClass(b) ELSE @]

\* The parser the loop of parse_array dispatches to for an element starting
\* with byte b.
ElemParser(frame, b) ==
    IF frame.elem_class = 1 /\ IsNumberStart(b) THEN "number_fast"
    ELSE IF frame.elem_class = 2 /\ b = QUOTE THEN "string"
    ELSE IF b = LBRACE /\ frame.shape.some THEN "shaped"
    ELSE "value"

\* The shape after the dispatch: an element that is no object, parsed by the
\* general arm, drops it.
ElemShape(frame, b) ==
    IF ElemParser(frame, b) = "value" /\ b # LBRACE
    THEN [frame EXCEPT !.shape = NoShape]
    ELSE frame

\* parse_array after an element has been parsed: ']' ends the list, ','
\* leads to the next element.
ArrayAfterElem ==
    /\ pc = "return"
    /\ stack # << >> /\ Top.kind = "array"
    /\ \E q \in {advance_to_structural(input, pos, structural_index, cursor)},
          c \in {consume_cursor(structural_index, cursor)},
          elements \in {Append(Top.elements, ret)} :
           IF Peek(input, q) = RBRACKET
           THEN Return(<< "list", elements >>, q + 1, depth - 1, c, Pop)
           ELSE IF Peek(input, q) = COMMA
           THEN \E p \in {skip_whitespace(input, q + 1)} :
                \E frame \in {NextElemFrame(Top, elements, Peek(input, p))} :
                    Call(ElemParser(frame, Peek(input, p)), p, depth, c,
                         ReplaceTop(ElemShape(frame, Peek(input, p))))
           ELSE Fail(Err("Expected ',' or ']'", q), q, depth, cursor)
    /\ UNCHANGED key_cache

\* parse_object and parse_object_capture_shape up to the first value.
ObjectOpen ==
    /\ pc = "value"
    /\ OpensObject
    /\ \E p \in {skip_whitespace(input, pos + 1)},
          c \in {consume_cursor(structural_index, cursor)} :
           IF DepthExceeded(depth + 1)
           THEN /\ Fail(Err("Nesting depth exceeds maximum", pos), pos, depth + 1, cursor)
                /\ UNCHANGED key_cache
           ELSE IF Peek(input, p) = RBRACE
           THEN /\ Return(build_object(<< >>, << >>, opts), p + 1, depth,
                          consume_cursor(structural_index, c),
                          IF how = "shaped"
                          THEN ReplaceTop([Top EXCEPT !.shape = KeyShape(<< >>, << >>, TRUE)])
                          ELSE stack)
                /\ UNCHANGED key_cache
           ELSE \E head \in {parse_entry_head(input, p, structural_index, c, opts, FALSE, {})} :
                    IF ~head.ok
                    THEN /\ Fail(head, p, depth + 1, c)
                         /\ UNCHANGED key_cache
                    ELSE /\ Call("value", head.pos, depth + 1, head.cursor,
                                 Append(stack,
                                        ObjectFrame(how = "shaped", pos, head.key, head.raw_key,
                                                    ~IsContainerOpen(Peek(input, head.pos)))))
                         /\ key_cache' = intern_key(key_cache, head.raw_key, opts)

\* The stack once the object on top has returned: a capturing call leaves
\* its shape in the parse_array frame below.
PopObject ==
    IF Top.capture
    THEN [Pop EXCEPT ![Len(stack) - 1].shape =
              KeyShape(Top.raw_keys, Top.keys, Top.is_flat)]
    ELSE Pop

\* parse_object and parse_object_capture_shape after a value: '}' builds the
\* object, ',' leads to the next key and value.
ObjectAfterValue ==
    /\ pc = "return"
    /\ stack # << >> /\ Top.kind = "object"
    /\ \E q \in {advance_to_structural(input, pos, structural_index, cursor)},
          c \in {consume_cursor(structural_index, cursor)},
          values \in {Append(Top.values, ret)} :
           IF Peek(input, q) = RBRACE
           THEN /\ Return(build_object(Top.keys, values, opts), q + 1, depth - 1, c, PopObject)
                /\ UNCHANGED key_cache
           ELSE IF Peek(input, q) # COMMA
           THEN /\ Fail(Err("Expected ',' or '}'", q), q, depth, cursor)
                /\ UNCHANGED key_cache
           ELSE \E p \in {skip_whitespace(input, q + 1)} :
                \E head \in {parse_entry_head(input, p, structural_index, c, opts,
                                              opts.reject_duplicate_keys, Top.seen)} :
                    IF ~head.ok
                    THEN /\ Fail(head, p, depth, c)
                         /\ UNCHANGED key_cache
                    ELSE /\ Call(IF Top.is_flat THEN "flat" ELSE "value",
                                 head.pos, depth, head.cursor,
                                 ReplaceTop([Top EXCEPT !.keys = Append(@, head.key),
                                                        !.raw_keys = Append(@, head.raw_key),
                                                        !.values = values,
                                                        !.seen = @ \cup {head.raw_key}]))
                         /\ key_cache' = intern_key(key_cache, head.raw_key, opts)

\* parse_object_shaped at key number i of the cached shape, the parser at p:
\* the mismatch that rewinds, the error, or the position of the value.
shaped_colon(q, c) ==
    IF Peek(input, q) # COLON
    THEN [act |-> "fail", err |-> Err("Expected ':'", q)]
    ELSE [act |-> "value", pos |-> skip_whitespace(input, q + 1),
          cursor |-> consume_cursor(structural_index, c)]

\* A key taken for the cached one without a look at its bytes.
shaped_raw_unchecked(raw, c, shape, i) ==
    IF ~raw.ok THEN [act |-> "fail", err |-> raw]
    ELSE TheOne({shaped_colon(q, c) :
                    q \in {advance_to_structural(input, raw.pos, structural_index, c)}})

shaped_raw(raw, c, shape, i) ==
    IF ~raw.ok THEN [act |-> "fail", err |-> raw]
    ELSE IF raw.raw # shape.raw_keys[i] THEN [act |-> "rewind"]
    ELSE TheOne({shaped_colon(q, c) :
                    q \in {advance_to_structural(input, raw.pos, structural_index, c)}})

shaped_key(p, c, shape, i) ==
    IF Peek(input, p) # QUOTE THEN [act |-> "rewind"]
    ELSE TheOne({shaped_raw(raw, c, shape, i) : raw \in {scan_string_raw(input, p)}})

\* A rewind that leaves the depth counter as parse_object_shaped raised it.
RewindKeepingDepth(obj_start, saved_cursor, d, stk) ==
    Call("object", obj_start, d + 1, saved_cursor,
         [stk EXCEPT ![Len(stk)].shape = NoShape])

\* A rewind that leaves the cursor of the structural index where it is.
RewindKeepingCursor(obj_start, saved_cursor, d, stk) ==
    Call("object", obj_start, d, cursor,
         [stk EXCEPT ![Len(stk)].shape = NoShape])

\* A rewind that hands the object to parse_object_shaped again, the shape
\* kept.
RewindIntoShaped(obj_start, saved_cursor, d, stk) ==
    Call("shaped", obj_start, d, saved_cursor, stk)

\* rewind_and_fallback!: back to the '{' at obj_start with the shape dropped,
\* then parse_object.
Rewind(obj_start, saved_cursor, d, stk) ==
    Call("object", obj_start, d, saved_cursor,
         [stk EXCEPT ![Len(stk)].shape = NoShape])

\* parse_object_shaped with a cached shape, up to the first value.
ShapedOpen ==
    /\ pc = "value"
    /\ OpensShaped
    /\ \E p \in {skip_whitespace(input, pos + 1)},
          c \in {consume_cursor(structural_index, cursor)} :
           IF DepthExceeded(depth + 1)
           THEN Fail(Err("Nesting depth exceeds maximum", pos), pos, depth + 1, cursor)
           ELSE IF Len(Top.shape.raw_keys) = 0
           THEN IF Peek(input, p) = RBRACE
                THEN Return(build_object(<< >>, << >>, opts), p + 1, depth,
                            consume_cursor(structural_index, c), stack)
                ELSE Rewind(pos, cursor, depth, stack)
           ELSE \E k \in {shaped_key(p, c, Top.shape, 1)} :
                    IF k.act = "rewind" THEN Rewind(pos, cursor, depth, stack)
                    ELSE IF k.act = "fail" THEN Fail(k.err, p, depth + 1, c)
                    ELSE Call(IF Top.shape.is_flat THEN "flat" ELSE "value",
                              k.pos, depth + 1, k.cursor,
                              Append(stack, ShapedFrame(pos, cursor)))
    /\ UNCHANGED key_cache

\* parse_object_shaped after a value: the next key of the shape, or the end.
ShapedAfterValue ==
    /\ pc = "return"
    /\ stack # << >> /\ Top.kind = "shaped"
    /\ \E q \in {advance_to_structural(input, pos, structural_index, cursor)},
          c \in {consume_cursor(structural_index, cursor)},
          values \in {Append(Top.values, ret)},
          shape \in {stack[Len(stack) - 1].shape} :
           IF Len(values) < Len(shape.raw_keys)
           THEN IF Peek(input, q) # COMMA
                THEN Rewind(Top.obj_start, Top.saved_cursor, depth - 1, Pop)
                ELSE \E p \in {skip_whitespace(input, q + 1)} :
                     \E k \in {shaped_key(p, c, shape, Len(values) + 1)} :
                         IF k.act = "rewind"
                         THEN Rewind(Top.obj_start, Top.saved_cursor, depth - 1, Pop)
                         ELSE IF k.act = "fail" THEN Fail(k.err, p, depth, c)
                         ELSE Call(IF shape.is_flat THEN "flat" ELSE "value",
                                   k.pos, depth, k.cursor,
                                   ReplaceTop([Top EXCEPT !.values = values]))
           ELSE IF Peek(input, q) = RBRACE
           THEN Return(build_object(shape.key_terms, values, opts), q + 1, depth - 1, c, Pop)
           ELSE IF Peek(input, q) = COMMA
           THEN Rewind(Top.obj_start, Top.saved_cursor, depth - 1, Pop)
           ELSE Fail(Err("Expected ',' or '}'", q), q, depth, cursor)
    /\ UNCHANGED key_cache

\* DirectParser::parse after the root value: only whitespace may follow.
Finish ==
    /\ pc = "return"
    /\ stack = << >>
    /\ \E p \in {skip_whitespace(input, pos)} :
           IF p < Len(input)
           THEN Fail(Err("Unexpected trailing characters", p), p, depth, cursor)
           ELSE /\ result' = Ok(ret, p)
                /\ pc' = "done"
                /\ pos' = p
                /\ UNCHANGED << depth, cursor, stack, how, ret, parsed >>
                /\ Static
    /\ UNCHANGED key_cache

\* The encoder leaves everything of the decoder but its buffer, its nesting
\* depth and its call stack alone.
WriterStatic ==
    UNCHANGED << opts, fopts, source, round, pos, structural_index, cursor,
                 key_cache, how, ret, parsed, nif_writer, first_result, family >>

\* The term the encoder is at: the root, or item i of the container on top.
CurrentTerm == write_map_fields(IF stack = << >> THEN source ELSE ItemOf(Top))

\* term_to_json at opts.depth = depth: a scalar or an empty container is
\* written whole, write_list and write_map_unsorted open a container and
\* go on to its first item one level deeper.
WriteTerm ==
    /\ pc = "encode"
    /\ \E term \in {CurrentTerm} :
           IF EncoderDepthExceeded(depth)
           THEN /\ result' = Err("Nesting depth exceeds maximum", 0)
                /\ pc' = "done"
                /\ UNCHANGED << input, depth, stack >>
           ELSE IF ~IsContainer(term)
           THEN \E w \in {write_scalar(term, fopts)} :
                    IF w.ok
                    THEN /\ input' = input \o w.out
                         /\ pc' = "written"
                         /\ UNCHANGED << result, depth, stack >>
                    ELSE /\ result' = Err(w.msg, 0)
                         /\ pc' = "done"
                         /\ UNCHANGED << input, depth, stack >>
           ELSE IF IsEmptyContainer(term)
           THEN /\ input' = input \o OpenOf(term) \o CloseOf(term)
                /\ pc' = "written"
                /\ UNCHANGED << result, depth, stack >>
           ELSE \E frame \in {WriterFrame(term)} :
                \E key \in {write_key(frame, 1, fopts)} :
                    IF key.ok
                    THEN /\ input' = input \o OpenOf(term) \o write_newline(fopts, depth + 1)
                                           \o key.out
                         /\ stack' = Append(stack, [frame EXCEPT !.seen = key.seen])
                         /\ depth' = depth + 1
                         /\ pc' = "encode"
                         /\ UNCHANGED result
                    ELSE /\ result' = Err(key.msg, 0)
                         /\ pc' = "done"
                         /\ UNCHANGED << input, depth, stack >>
    /\ WriterStatic

\* The loop of write_list and write_map_unsorted after an item: the comma
\* and the next item, or the closing bracket one level up.
WriteNext ==
    /\ pc = "written"
    /\ stack # << >>
    /\ IF Top.i < ItemCount(Top)
       THEN \E key \in {write_key(Top, Top.i + 1, fopts)} :
                IF key.ok
                THEN /\ input' = input \o << COMMA >> \o write_newline(fopts, depth)
                                       \o key.out
                     /\ stack' = ReplaceTop([Top EXCEPT !.i = @ + 1, !.seen = key.seen])
                     /\ pc' = "encode"
                     /\ UNCHANGED << depth, result >>
                ELSE /\ result' = Err(key.msg, 0)
                     /\ pc' = "done"
                     /\ UNCHANGED << input, depth, stack >>
       ELSE /\ input' = input \o write_newline(fopts, depth - 1) \o CloseOf(Top.term)
            /\ stack' = Pop
            /\ depth' = depth - 1
            /\ pc' = "written"
            /\ UNCHANGED result
    /\ WriterStatic

\* encode returns its buffer, which the caller hands to decode.
WriteDone ==
    /\ pc = "written"
    /\ stack = << >>
    /\ pc' = "new"
    /\ UNCHANGED << input, result, depth, stack >>
    /\ WriterStatic

FloatsDecimals == [DefaultDecodeOptions EXCEPT !.floats_decimals = TRUE]

\* The caller hands the term decode returned under the default options, or
\* under floats_decimals alone, to encode, to decode its output again.
Reencode ==
    /\ pc = "done"
    /\ round = 0
    /\ result.ok
    /\ opts \in {DefaultDecodeOptions, FloatsDecimals}
    /\ source' = result.term
    /\ round' = 1
    /\ pc' = "encode"
    /\ result' = Pending
    /\ input' = << >> /\ depth' = 0 /\ stack' = << >>
    /\ UNCHANGED << opts, fopts, pos, structural_index, cursor, key_cache, how, ret,
                    parsed, nif_writer, first_result, family >>

\* The input of a decode that had a structural index is decoded once more
\* by a DirectParser whose structural_index is None, as it is for an input
\* below STRUCTURAL_INDEX_THRESHOLD.
DecodeUnindexed ==
    /\ pc = "done"
    /\ round = 0
    /\ structural_index.present
    /\ first_result' = result
    /\ round' = 2
    /\ structural_index' = NoIndex
    /\ pos' = 0 /\ depth' = 0 /\ cursor' = 0
    /\ key_cache' = {} /\ stack' = << >>
    /\ parsed' = NoCalls
    /\ result' = Pending
    /\ pc' = "parse"
    /\ UNCHANGED << input, opts, fopts, source, how, ret, nif_writer, family >>

\* Whether some '[' of the input is followed by an object.
HasObjectFirst(bytes) ==
    \E i \in 1..Len(bytes) :
        bytes[i] = LBRACKET /\ Peek(bytes, skip_whitespace(bytes, i)) = LBRACE

\* The input of a decode that may have used key shapes is decoded once more
\* with parse_object for every object.
DecodeGeneric ==
    /\ pc = "done"
    /\ round = 0
    /\ HasObjectFirst(input)
    /\ first_result' = result
    /\ round' = 3
    /\ pos' = 0 /\ depth' = 0 /\ cursor' = 0
    /\ key_cache' = {} /\ stack' = << >>
    /\ parsed' = NoCalls
    /\ result' = Pending
    /\ pc' = "parse"
    /\ UNCHANGED << input, opts, fopts, source, structural_index, how, ret, nif_writer,
                    family >>

(***************************************************************************)
(* The output writer: NifBinaryWriter over an OwnedBinary.  Whether an     *)
(* allocation of the runtime succeeds is up to the environment.            *)
(***************************************************************************)

MIN_GROW_CAPACITY == 128

\* A byte of an allocation that was never written: its value is unknown.
UNINIT == -1

\* OwnedBinary::new(size): size bytes, none of them written.
Uninitialized(size) == [i \in 1..size |-> UNINIT]

\* The writer of a run that uses none, and the one before NifBinaryWriter::new.
\* returned is what the last call gave its caller: "Self" (new), "Ok"
\* (write, write_all), "Binary" (into_binary) or "panic"; alloc_failed
\* whether an allocation of that call failed.
WriterAt(state) ==
    [state |-> state, inner |-> << >>, pos |-> 0, next |-> 1, returned |-> "none",
     alloc_failed |-> FALSE]
NoWriter == WriterAt("idle")

\* NifBinaryWriter::new(initial_cap): the allocation of initial_cap bytes,
\* on failure one of 0 bytes, and expect() on that.
NifBinaryWriter_new(initial_cap, alloc_ok, fallback_ok) ==
    IF alloc_ok
    THEN [WriterAt("open") EXCEPT !.inner = Uninitialized(initial_cap), !.returned = "Self"]
    ELSE IF fallback_ok
    THEN [WriterAt("open") EXCEPT !.returned = "Self", !.alloc_failed = TRUE]
    ELSE [WriterAt("panicked") EXCEPT !.returned = "panic", !.alloc_failed = TRUE]

\* A growth to twice the length or MIN_GROW_CAPACITY, whatever is required.
new_cap_doubling(required, len) ==
    IF len * 2 >= MIN_GROW_CAPACITY THEN len * 2 ELSE MIN_GROW_CAPACITY

\* required.max(self.inner.len() * 2).max(MIN_GROW_CAPACITY)
new_cap(required, len) == MaxOf({required, len * 2, MIN_GROW_CAPACITY})

\* OwnedBinary::realloc_or_copy(new_cap): the binary is reallocated, or, if
\* that fails, a new one allocated and the bytes copied; it panics if that
\* fails too.
realloc_or_copy(inner, cap, realloc_ok, alloc_ok) ==
    IF realloc_ok \/ alloc_ok
    THEN [ok |-> TRUE, inner |-> inner \o Uninitialized(cap - Len(inner))]
    ELSE [ok |-> FALSE, inner |-> inner]

\* NifBinaryWriter::reserve(additional)
reserve(w, additional, realloc_ok, alloc_ok) ==
    IF w.pos + additional > Len(w.inner)
    THEN realloc_or_copy(w.inner, new_cap(w.pos + additional, Len(w.inner)),
                         realloc_ok, alloc_ok)
    ELSE [ok |-> TRUE, inner |-> w.inner]

\* self.inner.as_mut_slice()[self.pos..self.pos + buf.len()].copy_from_slice(buf)
copy_from_slice(inner, at, buf) ==
    [i \in 1..Len(inner) |->
        IF at < i /\ i <= at + Len(buf) THEN buf[i - at] ELSE inner[i]]

\* write and write_all of NifBinaryWriter once reserve has returned r: the
\* range of the slice is checked, the bytes are copied, Ok is returned.
write_reserved(w, buf, r, failed) ==
    IF ~r.ok \/ w.pos + Len(buf) > Len(r.inner)
    THEN [w EXCEPT !.state = "panicked", !.returned = "panic", !.alloc_failed = failed]
    ELSE [w EXCEPT !.inner = copy_from_slice(r.inner, w.pos, buf),
                   !.pos = w.pos + Len(buf),
                   !.next = w.next + 1,
                   !.returned = "Ok",
                   !.alloc_failed = failed]

NifBinaryWriter_write(w, buf, realloc_ok, alloc_ok) ==
    write_reserved(w, buf, reserve(w, Len(buf), realloc_ok, alloc_ok),
                   w.pos + Len(buf) > Len(w.inner) /\ ~realloc_ok)

\* NifBinaryWriter::into_binary: the shrinking realloc, whose failure is
\* ignored, and release.
into_binary(w, realloc_ok) ==
    [w EXCEPT !.state = "released",
              !.inner = IF w.pos < Len(w.inner) /\ realloc_ok
                        THEN SubSeq(w.inner, 1, w.pos)
                        ELSE w.inner,
              !.returned = "Binary",
              !.alloc_failed = FALSE]

\* The k-th buffer a run appends, of len bytes.
Buffer(k, len) == [i \in 1..len |-> (k * 31 + i) % 256]

\* A run of the output writer leaves the decoder and the encoder alone.
NifStatic ==
    UNCHANGED << input, opts, fopts, source, round, pos, depth, structural_index, cursor,
                 key_cache, stack, pc, how, ret, result, parsed, first_result, family >>

\* The caller creates the writer with the capacity family.n.
NifNew ==
    /\ pc = "writer"
    /\ nif_writer.state = "new"
    /\ \E alloc_ok \in BOOLEAN, fallback_ok \in BOOLEAN :
           nif_writer' = NifBinaryWriter_new(family.n, alloc_ok, fallback_ok)
    /\ NifStatic

\* The caller appends its next buffer, of family.items[next] bytes.
NifWrite ==
    /\ pc = "writer"
    /\ nif_writer.state = "open"
    /\ nif_writer.next <= Len(family.items)
    /\ \E realloc_ok \in BOOLEAN, alloc_ok \in BOOLEAN :
       \E buf \in {Buffer(nif_writer.next, family.items[nif_writer.next])} :
           nif_writer' = NifBinaryWriter_write(nif_writer, buf, realloc_ok, alloc_ok)
    /\ NifStatic

\* The caller finalises the writer after its last buffer.
NifIntoBinary ==
    /\ pc = "writer"
    /\ nif_writer.state = "open"
    /\ nif_writer.next > Len(family.items)
    /\ \E realloc_ok \in BOOLEAN : nif_writer' = into_binary(nif_writer, realloc_ok)
    /\ NifStatic

\* parse_key on the key at the start of the input: parse_string_impl with
\* for_key set.
ParseKey ==
    /\ pc = "key"
    /\ \E key \in {parse_string_impl(input, 0, opts)} :
           IF ~key.ok
           THEN /\ Fail(key, pos, depth, cursor)
                /\ UNCHANGED key_cache
           ELSE /\ result' = Ok(key.term, key.pos)
                /\ ret' = key.term
                /\ pos' = key.pos
                /\ pc' = "done"
                /\ key_cache' = intern_key(key_cache, Slice(input, 1, key.pos - 1), opts)
                /\ UNCHANGED << depth, cursor, stack, how, parsed >>
                /\ Static

Next ==
    \/ New
    \/ Parse
    \/ ParseScalar
    \/ ArrayOpen
    \/ ArrayAfterElem
    \/ ObjectOpen
    \/ ObjectAfterValue
    \/ ShapedOpen
    \/ ShapedAfterValue
    \/ Finish
    \/ WriteTerm
    \/ WriteNext
    \/ WriteDone
    \/ Reencode
    \/ DecodeUnindexed
    \/ DecodeGeneric
    \/ NifNew
    \/ NifWrite
    \/ NifIntoBinary
    \/ ParseKey

(***************************************************************************)
(* Inputs.  A run decodes one document under one set of options, or        *)
(* encodes one term and decodes the output.                                *)
(***************************************************************************)

Family(name, kind, n, items) == [name |-> name, kind |-> kind, n |-> n, items |-> items]

DecodeRun(doc, o, fam) ==
    [input |-> doc, opts |-> o, fopts |-> DefaultFormatOptions, source |-> NoTerm,
     round |-> 0, pc |-> "new", family |-> fam]

EncodeRun(term, fo, fam) ==
    [input |-> << >>, opts |-> DefaultDecodeOptions, fopts |-> fo, source |-> term,
     round |-> 1, pc |-> "encode", family |-> fam]

StartWith(run, w) ==
    /\ nif_writer = w
    /\ first_result = Pending
    /\ input = run.input
    /\ opts = run.opts
    /\ fopts = run.fopts
    /\ source = run.source
    /\ round = run.round
    /\ pc = run.pc
    /\ family = run.family
    /\ pos = 0 /\ depth = 0 /\ cursor = 0
    /\ structural_index = NoIndex
    /\ key_cache = {}
    /\ stack = << >>
    /\ how = "value"
    /\ ret = NoTerm
    /\ result = Pending
    /\ parsed = NoCalls

Start(run) == StartWith(run, NoWriter)

\* A run of the output writer: created with initial_cap, then one buffer of
\* each of the lengths appended, then finalised.
WriterRun(initial_cap, lengths) ==
    [input |-> << >>, opts |-> DefaultDecodeOptions, fopts |-> DefaultFormatOptions,
     source |-> NoTerm, round |-> 0, pc |-> "writer",
     family |-> Family("writer", "nif", initial_cap, lengths)]

StartWriter(initial_cap, lengths) ==
    StartWith(WriterRun(initial_cap, lengths), WriterAt("new"))

RejectDuplicates == [DefaultDecodeOptions EXCEPT !.reject_duplicate_keys = TRUE]
OrderedObjects == [DefaultDecodeOptions EXCEPT !.ordered_objects = TRUE]
InternKeys == [DefaultDecodeOptions EXCEPT !.intern_keys = TRUE]

Spaces(n) == [i \in 1..n |-> SPACE]

\* Documents that between them take every path of the decoder.
CoreDocs ==
    << Str("null"), Str(" true "), Str("false"), Str("nul"), Str("x"), << >>,
       Str("\"a\\n\""), Str("-12"), Str("1.5e2"), Str("[]"), Str("[1]"),
       Str("[1,2,3]"), Str("[\"a\",\"b\"]"), Str("[1,\"a\",null]"), Str("[1 2]"),
       Str("{}"), Str("{\"a\":1}"), Str("{\"a\":1,\"b\":[2]}"),
       Str("{\"a\":{\"b\":1},\"c\":2}"), Str("{\"a\" 1}"), Str("{a:1}"),
       Str("{\"a\":1 \"b\"}"), Str("[{\"a\":1},{\"a\":2}]"),
       Str("[{\"a\":1,\"b\":2},{\"a\":3}]"), Str("[{\"a\":1},{\"a\":2,\"b\":3}]"),
       Str("[{\"a\":1},{\"b\":2}]"), Str("[{},{}]"), Str("[{},{\"a\":1}]"),
       Str("[{\"a\":1},{}]"), Str("[{\"a\":[1]},{\"a\":[2]}]"),
       Str("[{\"a\":1},{\"a\" 2}]"), Str("[{\"a\":1},{\"a\":2]"),
       Str("[{\"a\":1},{\"a"), Str("[{\"a\":1,\"b\":2},{\"a\":3,\"b\":4}]"),
       Str("[1 ,") \o Spaces(STRUCTURAL_INDEX_THRESHOLD) \o Str("{\"a\":1} , {\"a\":2},{\"b\":[]}]") >>

CoreRuns ==
    {DecodeRun(CoreDocs[i], o, Family("core", i, 0, << >>)) :
        i \in 1..Len(CoreDocs),
        o \in {DefaultDecodeOptions, RejectDuplicates, OrderedObjects, InternKeys}}

\* A parser whose cache holds the keys of cache is about to parse raw as
\* an object key.
KeyRun(raw, o, fam) ==
    [DecodeRun(<< QUOTE >> \o raw \o << QUOTE >>, o, fam) EXCEPT !.pc = "key"]

StartKey(run, cache) ==
    /\ nif_writer = NoWriter
    /\ first_result = Pending
    /\ input = run.input
    /\ opts = run.opts
    /\ fopts = run.fopts
    /\ source = run.source
    /\ round = run.round
    /\ pc = run.pc
    /\ family = run.family
    /\ pos = 0 /\ depth = 0 /\ cursor = 0
    /\ structural_index = NoIndex
    /\ key_cache = cache
    /\ stack = << >>
    /\ how = "value"
    /\ ret = NoTerm
    /\ result = Pending
    /\ parsed = NoCalls

InitCore ==
    \/ \E run \in CoreRuns : Start(run)
    \/ StartWriter(0, << 1 >>)
    \/ StartKey(KeyRun(Str("a"), InternKeys, Family("key", 0, 0, << >>)), {})
SpecCore == InitCore /\ [][Next]_vars

(***************************************************************************)
(* Nesting depth.                                                          *)
(***************************************************************************)

\* How far around MAX_DEPTH the nesting of the documents ranges.
DepthSpan == 1

DeepKinds == {"array", "object", "capture", "matched", "mixed", "flat"}

\* The first len bytes of the pattern repeated without end.
Cycle(pattern, len) == [i \in 1..len |-> pattern[((i - 1) % Len(pattern)) + 1]]

\* The openers of the outer levels of a document of the kind: arrays,
\* objects under the key "a", or the two in turn.
DeepPrefix(kind, levels) ==
    CASE kind = "object" -> Cycle(Str("{\"a\":"), 5 * levels)
      [] kind = "mixed" -> Cycle(Str("[{\"a\":"), 6 * (levels \div 2) + (levels % 2))
      [] OTHER -> Cycle(<< LBRACKET >>, levels)

\* Their closers, innermost first.
DeepSuffix(kind, levels) ==
    CASE kind = "object" -> Cycle(<< RBRACE >>, levels)
      [] kind = "mixed" ->
            [j \in 1..levels |-> IF (levels + 1 - j) % 2 = 1 THEN RBRACKET ELSE RBRACE]
      [] OTHER -> Cycle(<< RBRACKET >>, levels)

\* The innermost level of a document of the kind (two levels for "flat").
DeepCore(kind) ==
    CASE kind = "array" -> Str("[]")
      [] kind = "object" -> Str("{}")
      [] kind = "capture" -> Str("{\"a\":1}")
      [] kind = "matched" -> Str("{\"a\":1},{\"a\":2}")
      [] kind = "mixed" -> Str("[ ]")
      [] kind = "flat" -> Str("{\"a\":1,\"b\":{}}")

DeepLevels(kind, n) == IF kind = "flat" THEN n - 2 ELSE n - 1

\* A document of the kind whose containers nest n deep.
DeepDoc(kind, n) ==
    DeepPrefix(kind, DeepLevels(kind, n)) \o DeepCore(kind)
        \o DeepSuffix(kind, DeepLevels(kind, n))

DeepRun(kind, n, o) == DecodeRun(DeepDoc(kind, n), o, Family("deep", kind, n, << >>))

StartDeep ==
    \E kind \in DeepKinds, n \in (MAX_DEPTH - DepthSpan)..(MAX_DEPTH + DepthSpan),
       o \in {DefaultDecodeOptions, OrderedObjects} :
        Start(DeepRun(kind, n, o))

InitDeep == InitCore \/ StartDeep
SpecDeep == InitDeep /\ [][Next]_vars

\* The deepest nesting of containers in a document without brackets in its
\* strings: the largest excess of opening over closing brackets in a prefix.
Excess(doc, i) ==
    Cardinality({j \in 1..i : doc[j] \in {LBRACKET, LBRACE}})
        - Cardinality({j \in 1..i : doc[j] \in {RBRACKET, RBRACE}})

Nesting(doc) == MaxOf({Excess(doc, i) : i \in 0..Len(doc)})

\* C2: a document whose containers nest more than 128 deep fails with the
\* nesting-depth error and one that nests at most 128 deep is accepted,
\* whether the deepest level is opened by parse_array, parse_object,
\* parse_object_capture_shape or parse_object_shaped.
NestingDepthLimit ==
    (pc = "done" /\ round = 0 /\ family.name = "deep")
        => IF Nesting(input) > 128
           THEN ~result.ok /\ result.msg = "Nesting depth exceeds maximum"
           ELSE result.ok

\* An object that is the first element of an array at level 129 is rejected.
NestingDepthRejected ==
    /\ pc = "done" /\ round = 0
    /\ family.name = "deep" /\ family.kind = "capture"
    /\ Nesting(input) = 129
    /\ ~result.ok /\ result.msg = "Nesting depth exceeds maximum"

(***************************************************************************)
(* Round trip.                                                             *)
(***************************************************************************)

\* How many containers are wrapped around a scalar.
RoundTripNest == 1

\* Scalars of every kind: literals, integers, floats in plain and exponent
\* notation, strings with escapes, with surrogate pairs and with raw UTF-8.
RoundTripScalars ==
    << Str("null"), Str("true"), Str("false"),
       Str("0"), Str("-0"), Str("7"), Str("-12"), Str("123456789"),
       Str("1.5"), Str("-0.0"), Str("0.1"), Str("1e2"), Str("1E+22"), Str("1.5e-7"),
       Str("-2.50"), Str("100.0e-2"),
       Str("\"\""), Str("\"a\""), Str("\"a\\n\\\"\\\\\\/\\b\\f\\r\\t\""),
       Str("\"\\u00e9\\u0000\""), Str("\"\\uD83D\\uDE00\""), Str("\"<\\u2028>\""),
       << QUOTE, 195, 169, 226, 130, 172, 240, 159, 152, 128, QUOTE >>,
       Str("\"\\u007f&\"") >>

RoundTripWrappers == 1..8

\* The documents a and b in a container: lists, objects, objects with a
\* repeated key, and arrays of objects that share a shape or break it.
Wrap(w, a, b) ==
    CASE w = 1 -> Str("[") \o a \o Str("]")
      [] w = 2 -> Str("[") \o a \o Str(", ") \o b \o Str("]")
      [] w = 3 -> Str("{\"k\":") \o a \o Str("}")
      [] w = 4 -> Str("{\"k\":") \o a \o Str(",\"k\":") \o b \o Str("}")
      [] w = 5 -> Str("{\"b\":") \o a \o Str(" ,\"a\": ") \o b \o Str("}")
      [] w = 6 -> Str("[{\"a\":") \o a \o Str("},{\"a\":") \o b \o Str("}]")
      [] w = 7 -> Str("[{\"a\":") \o a \o Str(",\"b\":") \o b \o Str("},{\"a\":")
                      \o b \o Str("}]")
      [] w = 8 -> Str("{\"\\u0061\":") \o a \o Str(",\"a\":") \o b \o Str("}")

\* Scalar number i in the containers ws, innermost first, each next to the
\* scalar that follows it in the list.
RECURSIVE WrappedDoc(_, _)
WrappedDoc(i, ws) ==
    IF ws = << >> THEN RoundTripScalars[i]
    ELSE Wrap(ws[Len(ws)], WrappedDoc(i, SubSeq(ws, 1, Len(ws) - 1)),
              RoundTripScalars[(i % Len(RoundTripScalars)) + 1])

WrapperLists == UNION {[1..n -> RoundTripWrappers] : n \in 0..RoundTripNest}

RoundTripRun(i, ws) ==
    DecodeRun(WrappedDoc(i, ws), DefaultDecodeOptions, Family("value", i, Len(ws), ws))

InitRoundTrip ==
    \/ InitCore
    \/ StartDeep
    \/ \E i \in 1..Len(RoundTripScalars), ws \in WrapperLists : Start(RoundTripRun(i, ws))
SpecRoundTrip == InitRoundTrip /\ [][Next]_vars

\* C1: a term that decode produced under the default options, encoded with
\* the default options and decoded again with them, comes back the same
\* (maps compare by their entries, so key order plays no part).
RoundTrip ==
    (pc = "done" /\ round = 1 /\ opts = DefaultDecodeOptions)
        => result.ok /\ result.term = source

\* A map decoded from an object with a repeated key, holding a float, has
\* made the round trip.
RoundTripDone ==
    /\ pc = "done" /\ round = 1
    /\ family.name = "value" /\ family.items = << 4 >>
    /\ source[1] = "map" /\ source[2][Str("k")][1] = "float"
    /\ result.ok /\ result.term = source

(***************************************************************************)
(* Bytes after the root value.                                             *)
(***************************************************************************)

\* How many bytes follow the root value (and its padding).
MaxTailLen == 2

TailRoots ==
    << Str("7"), Str("-0.5"), Str("null"), Str("\"a\""), Str("[1]"), Str("{\"a\":1}") >>

\* The four whitespace bytes, bytes that look like whitespace (form feed,
\* NUL, the Latin-1 no-break space) and bytes of further tokens.
TailBytes == {SPACE, TAB, LF, CR, 12, 0, 160, Ord("x"), COMMA, Ord("1")}

Tails == UNION {[1..n -> TailBytes] : n \in 0..MaxTailLen}

\* Whitespace enough to take skip_whitespace through its 16-byte chunks.
TailPadding(kind) ==
    IF kind = "padded" THEN Cycle(<< SPACE, LF, TAB, CR >>, 2 * CHUNK + 3) ELSE << >>

TailRun(i, kind, tail) ==
    DecodeRun(TailRoots[i] \o TailPadding(kind) \o tail, DefaultDecodeOptions,
              Family("tail", kind, i, tail))

InitTail ==
    \/ InitCore
    \/ \E i \in 1..Len(TailRoots), kind \in {"plain", "padded"}, tail \in Tails :
          Start(TailRun(i, kind, tail))
SpecTail == InitTail /\ [][Next]_vars

\* The offsets from p on of the bytes that are not JSON whitespace
\* (space, tab, line feed, carriage return).
NonWhitespaceFrom(doc, p) ==
    {q \in p..(Len(doc) - 1) : doc[q + 1] \notin {32, 9, 10, 13}}

\* C3: once the root value has been parsed, decode succeeds with that value
\* when only whitespace is left, and otherwise fails with the
\* trailing-characters error at the offset of the first byte after the root
\* value that is not whitespace.
TrailingBytes ==
    [][(pc = "return" /\ stack = << >> /\ round = 0)
          => IF NonWhitespaceFrom(input, pos) = {}
             THEN result' = Ok(ret, Len(input))
             ELSE result' = Err("Unexpected trailing characters",
                                MinOf(NonWhitespaceFrom(input, pos)))]_vars

\* A form feed after more than a chunk of whitespace was reported at its
\* offset.
TrailingByteReported ==
    /\ pc = "done" /\ round = 0
    /\ family.name = "tail" /\ family.kind = "padded" /\ family.items = << SPACE, 12 >>
    /\ result = Err("Unexpected trailing characters", Len(input) - 1)

(***************************************************************************)
(* \u escapes of surrogates.                                               *)
(***************************************************************************)

\* How many units a string is made of.
MaxUnits == 3

\* The pieces strings are made of, each with the code point it stands for:
\* high surrogates, low surrogates, an escape of the BMP, a letter, an
\* escaped backslash and an escaped line feed.
SurrogateUnits ==
    << [text |-> Str("\\uD83D"), cp |-> 55357], [text |-> Str("\\udbff"), cp |-> 56319],
       [text |-> Str("\\uDE00"), cp |-> 56832], [text |-> Str("\\udc00"), cp |-> 56320],
       [text |-> Str("\\u00e9"), cp |-> 233], [text |-> Str("a"), cp |-> 97],
       [text |-> Str("\\\\"), cp |-> 92], [text |-> Str("\\n"), cp |-> 10] >>

UnitLists == UNION {[1..n -> 1..Len(SurrogateUnits)] : n \in 0..MaxUnits}

RECURSIVE UnitText(_)
UnitText(us) ==
    IF us = << >> THEN << >> ELSE SurrogateUnits[Head(us)].text \o UnitText(Tail(us))

\* The string as a root value, as the second element of an array of strings,
\* and as a key.
SurrogateDoc(kind, us) ==
    CASE kind = "root" -> << QUOTE >> \o UnitText(us) \o << QUOTE >>
      [] kind = "elem" -> Str("[\"a\",\"") \o UnitText(us) \o Str("\"]")
      [] kind = "key" -> Str("{\"") \o UnitText(us) \o Str("\":1}")

SurrogateRun(kind, us) ==
    DecodeRun(SurrogateDoc(kind, us), DefaultDecodeOptions, Family("surrogate", kind, 0, us))

InitSurrogate ==
    \/ InitCore
    \/ \E kind \in {"root", "elem", "key"}, us \in UnitLists : Start(SurrogateRun(kind, us))
SpecSurrogate == InitSurrogate /\ [][Next]_vars

InHighRange(cp) == cp \in 55296..56319
InLowRange(cp) == cp \in 56320..57343

\* What RFC 8259 makes of the units: the UTF-8 text, a high surrogate and
\* the low surrogate right after it standing for one code point, or no text
\* when a surrogate stands alone.
RECURSIVE TextOfUnits(_, _)
TextOfUnits(us, text) ==
    IF us = << >> THEN [ok |-> TRUE, bytes |-> text]
    ELSE IF InHighRange(SurrogateUnits[us[1]].cp)
    THEN IF Len(us) >= 2 /\ InLowRange(SurrogateUnits[us[2]].cp)
         THEN TextOfUnits(SubSeq(us, 3, Len(us)),
                          text \o encode_utf8(65536 + (SurrogateUnits[us[1]].cp - 55296) * 1024
                                                    + (SurrogateUnits[us[2]].cp - 56320)))
         ELSE [ok |-> FALSE]
    ELSE IF InLowRange(SurrogateUnits[us[1]].cp) THEN [ok |-> FALSE]
    ELSE TextOfUnits(Tail(us), text \o encode_utf8(SurrogateUnits[us[1]].cp))

\* The term the document of the kind decodes to when its string is bytes.
SurrogateTerm(kind, bytes) ==
    CASE kind = "root" -> << "binary", bytes >>
      [] kind = "elem" -> << "list", << << "binary", Str("a") >>, << "binary", bytes >> >> >>
      [] kind = "key" -> << "map", [k \in {bytes} |-> << "int", 1 >>] >>

\* C4: a high surrogate escape with a low surrogate escape right after it
\* decodes to the UTF-8 of the code point the pair stands for; a string with
\* a high surrogate not followed so, or with a low surrogate on its own,
\* fails with the lone-surrogate error.
SurrogateEscapes ==
    (pc = "done" /\ round = 0 /\ family.name = "surrogate")
        => IF TextOfUnits(family.items, << >>).ok
           THEN /\ result.ok
                /\ result.term = SurrogateTerm(family.kind,
                                               TextOfUnits(family.items, << >>).bytes)
           ELSE ~result.ok /\ result.msg = "Lone surrogate in string"

\* The pair \udbff\udc00 after a letter decoded, in a key, to U+10FC00.
SurrogatePairDecoded ==
    /\ pc = "done" /\ round = 0
    /\ family.name = "surrogate" /\ family.kind = "key" /\ family.items = << 6, 2, 4 >>
    /\ result.ok
    /\ DOMAIN result.term[2] = {<< 97, 244, 143, 176, 128 >>}

(***************************************************************************)
(* Strings through the encoder.                                            *)
(***************************************************************************)

\* How many code points a string is made of.
MaxStringLen == 2

\* Code points of every class the escape modes tell apart: plain ASCII, the
\* JSON escapes, a control character, the HTML specials, DEL, two-byte and
\* three-byte characters, the line separators, and supplementary planes.
StringCodePoints ==
    {97, 34, 92, 10, 1, 60, 38, 47, 127, 233, 8232, 8233, 65535, 65536, 128512, 1114111}

CodePointLists == UNION {[1..n -> StringCodePoints] : n \in 0..MaxStringLen}

RECURSIVE Utf8Of(_)
Utf8Of(cps) == IF cps = << >> THEN << >> ELSE encode_utf8(Head(cps)) \o Utf8Of(Tail(cps))

\* The string alone, or between runs of letters longer than a chunk.
StringBytes(kind, cps) ==
    IF kind = "padded"
    THEN Cycle(Str("ab"), CHUNK + 1) \o Utf8Of(cps) \o Cycle(Str("cd"), CHUNK + 1)
    ELSE Utf8Of(cps)

StringRun(kind, cps, mode) ==
    EncodeRun(<< "binary", StringBytes(kind, cps) >>,
              [DefaultFormatOptions EXCEPT !.escape = mode],
              Family("string", kind, 0, cps))

InitString ==
    \/ InitCore
    \/ \E kind \in {"plain", "padded"}, cps \in CodePointLists, mode \in EscapeModes :
          Start(StringRun(kind, cps, mode))
SpecString == InitString /\ [][Next]_vars

\* C5: the output of the encoder for a valid UTF-8 string, under any of the
\* four escape modes, decodes to that string.
EscapeRoundTrip ==
    (pc = "done" /\ family.name = "string") => result.ok /\ result.term = source

\* U+1F600 written under unicode_safe has been decoded to another string.
EscapeRoundTripBroken ==
    /\ pc = "done" /\ family.name = "string" /\ family.items = << 128512 >>
    /\ fopts.escape = "unicode_safe"
    /\ result.ok /\ result.term # source

\* The escape sequence \uXXXX of a 16-bit unit, in four hex digits.
EscapeOfUnit(unit) == << BACKSLASH, Ord("u") >> \o FormatHex04(unit)

\* What unicode_safe is to write for a code point: one escape for a
\* non-ASCII code point of the Basic Multilingual Plane, the escapes of the
\* high and the low surrogate for one above it, and for ASCII the byte or
\* its JSON escape.
UnicodeSafeOf(cp) ==
    IF cp > 65535
    THEN EscapeOfUnit(55296 + ((cp - 65536) \div 1024))
             \o EscapeOfUnit(56320 + ((cp - 65536) % 1024))
    ELSE IF cp >= 128 THEN EscapeOfUnit(cp)
    ELSE IF NeedsJsonEscape(cp) THEN write_escape_byte(cp)
    ELSE << cp >>

RECURSIVE UnicodeSafeText(_)
UnicodeSafeText(cps) ==
    IF cps = << >> THEN << >> ELSE UnicodeSafeOf(Head(cps)) \o UnicodeSafeText(Tail(cps))

UnicodeSafeString(kind, cps) ==
    IF kind = "padded"
    THEN << QUOTE >> \o Cycle(Str("ab"), CHUNK + 1) \o UnicodeSafeText(cps)
             \o Cycle(Str("cd"), CHUNK + 1) \o << QUOTE >>
    ELSE << QUOTE >> \o UnicodeSafeText(cps) \o << QUOTE >>

\* C6: what the encoder has written for a string under unicode_safe is ASCII
\* only, each non-ASCII code point of the Basic Multilingual Plane being one
\* \uXXXX of four hex digits and each code point above U+FFFF a surrogate
\* pair of two (U+1F600 is \ud83d\ude00).
UnicodeSafeOutput ==
    (pc = "new" /\ round = 1 /\ family.name = "string" /\ fopts.escape = "unicode_safe")
        => /\ \A k \in 1..Len(input) : input[k] < 128
           /\ input = UnicodeSafeString(family.kind, family.items)

\* U+1F600 has been written as \u1f600, five hex digits after one \u.
UnicodeSafeFiveDigits ==
    /\ pc = "new" /\ round = 1
    /\ family.name = "string" /\ family.kind = "plain" /\ family.items = << 128512 >>
    /\ fopts.escape = "unicode_safe"
    /\ input = Str("\"\\u1f600\"")

(***************************************************************************)
(* Numeric tokens.                                                         *)
(***************************************************************************)

\* How many bytes a numeric token has.
MaxNumLen == 4

\* The integer_digit_limit of the runs that set one.
SmallDigitLimit == 2

NumberBytes == {MINUS, ZERO, Ord("1"), DOT, Ord("e"), Ord("E"), PLUS}

\* Tokens that start as a number does, with '-' or a digit.
NumberTokens ==
    {t \in UNION {[1..n -> NumberBytes] : n \in 1..MaxNumLen} : IsNumberStart(t[1])}

DigitLimited == [DefaultDecodeOptions EXCEPT !.integer_digit_limit = SmallDigitLimit]

\* The token as the root value, read by parse_number, and as the second
\* element of an array of numbers, read by parse_number_fast.
NumberDoc(kind, token) ==
    IF kind = "root" THEN token ELSE Str("[1,") \o token \o Str("]")

TokenStart(kind) == IF kind = "root" THEN 0 ELSE 3

NumberRun(kind, token, o) ==
    DecodeRun(NumberDoc(kind, token), o, Family("number", kind, 0, token))

InitNumber ==
    \/ InitCore
    \/ \E kind \in {"root", "elem"}, token \in NumberTokens,
          o \in {DefaultDecodeOptions, DigitLimited} :
          Start(NumberRun(kind, token, o))
SpecNumber == InitNumber /\ [][Next]_vars

IsDigitAt(t, i) == i <= Len(t) /\ t[i] \in 48..57

\* The index after the run of digits of t that starts at index i.
AfterDigits(t, i) ==
    MinOf({j \in i..(Len(t) + 1) : ~IsDigitAt(t, j)})

\* The grammar -?(0|[1-9]\d*)(\.\d+)?([eE][+-]?\d+)? read along the token t:
\* the index its integer part starts at, and the indexes after the integer
\* part, after the fraction and after the exponent.
IntStart(t) == IF t[1] = 45 THEN 2 ELSE 1
IntEnd(t) == IF t[IntStart(t)] = 48 THEN IntStart(t) + 1 ELSE AfterDigits(t, IntStart(t))
HasFraction(t) == IntEnd(t) <= Len(t) /\ t[IntEnd(t)] = 46
FractionEnd(t) == IF HasFraction(t) THEN AfterDigits(t, IntEnd(t) + 1) ELSE IntEnd(t)
HasExponent(t) == FractionEnd(t) <= Len(t) /\ t[FractionEnd(t)] \in {101, 69}
ExponentDigits(t) ==
    IF FractionEnd(t) + 1 <= Len(t) /\ t[FractionEnd(t) + 1] \in {43, 45}
    THEN FractionEnd(t) + 2
    ELSE FractionEnd(t) + 1
ExponentEnd(t) == IF HasExponent(t) THEN AfterDigits(t, ExponentDigits(t)) ELSE FractionEnd(t)

\* The defects the invalid-number error is for: a '-' without a digit after
\* it, a '.' without a digit after it, an exponent marker without a digit
\* after it and its sign.
LoneMinus(t) == ~IsDigitAt(t, IntStart(t))
BareFraction(t) == ~LoneMinus(t) /\ HasFraction(t) /\ ~IsDigitAt(t, IntEnd(t) + 1)
BareExponent(t) ==
    ~LoneMinus(t) /\ ~BareFraction(t) /\ HasExponent(t) /\ ~IsDigitAt(t, ExponentDigits(t))
MissingDigit(t) == LoneMinus(t) \/ BareFraction(t) \/ BareExponent(t)

\* The token matches the grammar from its first byte to its last.
MatchesGrammar(t) == ~MissingDigit(t) /\ ExponentEnd(t) = Len(t) + 1

\* The integer part has more digits than a limit that is set allows.
OverDigitLimit(t, o) ==
    /\ ~LoneMinus(t)
    /\ o.integer_digit_limit > 0
    /\ IntEnd(t) - IntStart(t) > o.integer_digit_limit

InvalidNumberAt(at) == ~result.ok /\ result.msg = "Invalid number" /\ result.at = at

\* C7: decode fails for every numeric token that does not match the grammar;
\* a missing digit after '-', '.' or the exponent marker is the
\* invalid-number error at the first byte of the token, except that an
\* integer part over the digit limit is reported first, as the digit-limit
\* error at the same byte; a leading zero before further digits never
\* decodes.
NumberGrammar ==
    (pc = "done" /\ round = 0 /\ family.name = "number")
        => /\ ~MatchesGrammar(family.items) => ~result.ok
           /\ MissingDigit(family.items)
                => IF OverDigitLimit(family.items, opts)
                   THEN /\ ~result.ok
                        /\ result.msg = "integer exceeds digit limit"
                        /\ result.at = TokenStart(family.kind)
                   ELSE InvalidNumberAt(TokenStart(family.kind))

\* C7 as the specification has it: every missing digit is the invalid-number
\* error.
NumberGrammarAsStated ==
    (pc = "done" /\ round = 0 /\ family.name = "number")
        => /\ ~MatchesGrammar(family.items) => ~result.ok
           /\ MissingDigit(family.items) => InvalidNumberAt(TokenStart(family.kind))

\* "1E+" as an array element failed as an invalid number at its first byte.
BareExponentRejected ==
    /\ pc = "done" /\ round = 0
    /\ family.name = "number" /\ family.kind = "elem" /\ family.items = Str("1E+")
    /\ InvalidNumberAt(3)

(***************************************************************************)
(* Objects with repeated keys, on every object path                        *)
(***************************************************************************)

MaxKeys == 3

\* The raw keys of the documents, as written between the quotes, and the
\* strings they stand for: the third is an escaped spelling of the first.
RawKeys == << Str("a"), Str("b"), Str("\\u0061") >>
KeyStrings == << Str("a"), Str("b"), Str("a") >>

KeyLists == UNION {[1..n -> 1..Len(RawKeys)] : n \in 0..MaxKeys}

\* The value of entry i of an object whose values start after base: a digit,
\* or with style 1 an array of that digit.
EntryValue(base, i, style) ==
    IF style = 0 THEN << ZERO + base + i >>
    ELSE << LBRACKET, ZERO + base + i, RBRACKET >>

EntryText(keys, base, i, style) ==
    (IF i > 1 THEN << COMMA >> ELSE << >>)
        \o << QUOTE >> \o RawKeys[keys[i]] \o << QUOTE, COLON >> \o EntryValue(base, i, style)

RECURSIVE EntriesText(_, _, _, _)
EntriesText(keys, base, i, style) ==
    IF i > Len(keys) THEN << >>
    ELSE EntryText(keys, base, i, style) \o EntriesText(keys, base, i + 1, style)

ObjectText(keys, base, style) ==
    << LBRACE >> \o EntriesText(keys, base, 1, style) \o << RBRACE >>

\* The values of the second object of a document start after SecondBase.
SecondBase == 4

ObjectKinds == {"root", "first", "twin", "second", "nested", "padded"}

\* keys as the root (parse_object), as the first object of an array (the
\* capturing path), twice in an array (the second on the shape-matched path),
\* after an object of keys a and b (matched, or rewound to parse_object),
\* twice as values of an object, and twice in an array long enough for the
\* structural index.
ObjectDoc(kind, keys, style) ==
    CASE kind = "root" -> ObjectText(keys, 0, style)
      [] kind = "first" -> << LBRACKET >> \o ObjectText(keys, 0, style) \o << RBRACKET >>
      [] kind = "twin" -> << LBRACKET >> \o ObjectText(keys, 0, style) \o << COMMA >>
                              \o ObjectText(keys, SecondBase, style) \o << RBRACKET >>
      [] kind = "second" -> << LBRACKET >> \o ObjectText(<< 1, 2 >>, SecondBase, style) \o << COMMA >>
                              \o ObjectText(keys, 0, style) \o << RBRACKET >>
      [] kind = "nested" -> Str("{\"a\":") \o ObjectText(keys, 0, style) \o Str(",\"b\":")
                              \o ObjectText(keys, SecondBase, style) \o << RBRACE >>
      [] kind = "padded" -> << LBRACKET >> \o Spaces(STRUCTURAL_INDEX_THRESHOLD)
                              \o ObjectText(keys, 0, style) \o Str(" , ")
                              \o ObjectText(keys, SecondBase, style) \o << RBRACKET >>

ObjectRun(kind, keys, style, o) ==
    DecodeRun(ObjectDoc(kind, keys, style), o, Family("object", kind, style, keys))

InitObject ==
    \/ InitCore
    \/ \E kind \in ObjectKinds, keys \in KeyLists, style \in {0, 1},
          o \in {DefaultDecodeOptions, InternKeys, RejectDuplicates, OrderedObjects} :
          Start(ObjectRun(kind, keys, style, o))
SpecObject == InitObject /\ [][Next]_vars

\* The terms the documents stand for, read off the keys of the family.
ValueTerm(base, i, style) ==
    IF style = 0 THEN << "int", base + i >>
    ELSE << "list", << << "int", base + i >> >> >>

LastOf(keys, k) == MaxOf({i \in 1..Len(keys) : KeyStrings[keys[i]] = k})

LastWins(keys, base, style) ==
    << "map", [k \in {KeyStrings[keys[i]] : i \in 1..Len(keys)} |->
                  ValueTerm(base, LastOf(keys, k), style)] >>

InOrder(keys, base, style) ==
    << "ordered", [i \in 1..Len(keys) |->
                      << << "binary", KeyStrings[keys[i]] >>, ValueTerm(base, i, style) >>] >>

ObjectTerm(keys, base, style, o) ==
    IF o.ordered_objects THEN InOrder(keys, base, style) ELSE LastWins(keys, base, style)

PairTerm(first, second, o) ==
    IF o.ordered_objects
    THEN << "ordered", << << << "binary", Str("a") >>, first >>,
                          << << "binary", Str("b") >>, second >> >> >>
    ELSE << "map", [k \in {Str("a"), Str("b")} |-> IF k = Str("a") THEN first ELSE second] >>

ExpectedTerm(kind, keys, style, o) ==
    CASE kind = "root" -> ObjectTerm(keys, 0, style, o)
      [] kind = "first" -> << "list", << ObjectTerm(keys, 0, style, o) >> >>
      [] kind \in {"twin", "padded"} ->
            << "list", << ObjectTerm(keys, 0, style, o),
                          ObjectTerm(keys, SecondBase, style, o) >> >>
      [] kind = "second" ->
            << "list", << ObjectTerm(<< 1, 2 >>, SecondBase, style, o),
                          ObjectTerm(keys, 0, style, o) >> >>
      [] kind = "nested" ->
            PairTerm(ObjectTerm(keys, 0, style, o), ObjectTerm(keys, SecondBase, style, o), o)

\* Two keys of one object are the same bytes between the quotes.
RawRepeat(keys) ==
    \E i, j \in 1..Len(keys) : i < j /\ RawKeys[keys[i]] = RawKeys[keys[j]]

ObjectDecoded == pc = "done" /\ round = 0 /\ family.name = "object"

\* C8: with reject_duplicate_keys, decode fails with the duplicate-key error
\* whenever one object has two keys of identical raw bytes, on the generic,
\* the shape-capturing and the shape-matched path; keys that are equal only
\* across different objects decode.
RejectsDuplicateKeys ==
    (ObjectDecoded /\ opts.reject_duplicate_keys) =>
        IF RawRepeat(family.items)
        THEN ~result.ok /\ result.msg = "Duplicate key in object"
        ELSE result.ok /\ result.term = ExpectedTerm(family.kind, family.items, family.n, opts)

\* An object of keys a, b, a after an object of keys a, b: the shape-matched
\* path gives up at the third key and the object is rejected.
DuplicateAfterShape ==
    /\ ObjectDecoded /\ opts.reject_duplicate_keys
    /\ family.kind = "second" /\ family.items = << 1, 2, 1 >>
    /\ ~result.ok /\ result.msg = "Duplicate key in object"

\* C9: with reject_duplicate_keys and ordered_objects off, the map of an
\* object has one entry per distinct key, with the value of the key's last
\* occurrence.
LastValueWins ==
    (ObjectDecoded /\ ~opts.reject_duplicate_keys /\ ~opts.ordered_objects) =>
        result.ok /\ result.term = ExpectedTerm(family.kind, family.items, family.n, opts)

\* Keys a, b, a twice in an array: the second object takes the shape-matched
\* path, and both maps hold the third value under a.
LastValueKept ==
    /\ ObjectDecoded /\ opts = DefaultDecodeOptions
    /\ family.kind = "twin" /\ family.items = << 1, 2, 1 >> /\ family.n = 0
    /\ result.ok
    /\ result.term[2][1][2][Str("a")] = << "int", 3 >>
    /\ result.term[2][2][2][Str("a")] = << "int", SecondBase + 3 >>

\* C10: with ordered_objects, an object decodes to all its entries in source
\* order, repeated keys included, for empty, single-entry, multi-entry and
\* shape-matched objects.
OrderedEntries ==
    (ObjectDecoded /\ opts.ordered_objects) =>
        result.ok /\ result.term = ExpectedTerm(family.kind, family.items, family.n, opts)

\* Keys a, a, b twice in an array: both objects keep the three entries.
RepeatedEntriesKept ==
    /\ ObjectDecoded /\ opts.ordered_objects
    /\ family.kind = "twin" /\ family.items = << 1, 1, 2 >>
    /\ result.ok
    /\ Len(result.term[2][1][2]) = 3 /\ Len(result.term[2][2][2]) = 3
    /\ result.term[2][2][2][2][1] = << "binary", Str("a") >>

(***************************************************************************)
(* The escapes of html_safe, and the slash in the other modes              *)
(***************************************************************************)

MaxEscapeLen == 2

\* The characters html_safe escapes, the backslash, and characters of two
\* to four bytes, U+2027 next to the two separators among them.
EscapeCodePoints == {47, 60, 62, 38, 92, 233, 8231, 8232, 8233, 128512}

EscapeLists == UNION {[1..n -> EscapeCodePoints] : n \in 0..MaxEscapeLen}

EscapeRun(kind, cps, mode) ==
    EncodeRun(<< "binary", StringBytes(kind, cps) >>,
              [DefaultFormatOptions EXCEPT !.escape = mode],
              Family("escape", kind, 0, cps))

InitEscape ==
    \/ InitCore
    \/ \E kind \in {"plain", "padded"}, cps \in EscapeLists, mode \in EscapeModes :
          Start(EscapeRun(kind, cps, mode))
SpecEscape == InitEscape /\ [][Next]_vars

\* What html_safe is to write for a code point: the six escapes of the
\* mode, the JSON escape of a control character, quote or backslash, and
\* the character itself otherwise.
HtmlSafeOf(cp) ==
    CASE cp = 47 -> Str("\\/")
      [] cp = 60 -> Str("\\u003c")
      [] cp = 62 -> Str("\\u003e")
      [] cp = 38 -> Str("\\u0026")
      [] cp = 8232 -> Str("\\u2028")
      [] cp = 8233 -> Str("\\u2029")
      [] OTHER -> IF NeedsJsonEscape(cp) THEN write_escape_byte(cp) ELSE Utf8Of(<< cp >>)

RECURSIVE HtmlSafeText(_)
HtmlSafeText(cps) ==
    IF cps = << >> THEN << >> ELSE HtmlSafeOf(Head(cps)) \o HtmlSafeText(Tail(cps))

HtmlSafeString(kind, cps) ==
    IF kind = "padded"
    THEN << QUOTE >> \o Cycle(Str("ab"), CHUNK + 1) \o HtmlSafeText(cps)
             \o Cycle(Str("cd"), CHUNK + 1) \o << QUOTE >>
    ELSE << QUOTE >> \o HtmlSafeText(cps) \o << QUOTE >>

\* The number of backslashes that end right before index k of text.
BackslashRun(text, k) ==
    k - 1 - MaxOf({j \in 0..(k - 1) : j = 0 \/ text[j] # BACKSLASH})

\* Every slash of text is unescaped: an even number of backslashes precedes it.
SlashesVerbatim(text) ==
    \A k \in 1..Len(text) : text[k] = SLASH => BackslashRun(text, k) % 2 = 0

CountOf(seq, x) == Cardinality({k \in 1..Len(seq) : seq[k] = x})

StringEncoded == pc = "new" /\ round = 1 /\ family.name = "escape"

\* C11: html_safe writes '/' as a backslash and '/', the characters '<', '>'
\* and '&' as the escapes u003c, u003e and u0026, U+2028 and U+2029 as the
\* escapes u2028 and u2029, and every other non-control character as it is;
\* the other three modes write each '/' of the string as one unescaped '/'.
HtmlSafeOutput ==
    StringEncoded =>
        IF fopts.escape = "html_safe"
        THEN input = HtmlSafeString(family.kind, family.items)
        ELSE /\ SlashesVerbatim(input)
             /\ CountOf(input, SLASH) = CountOf(family.items, 47)

\* The string of '/' and '<' has been written as its two escapes.
HtmlSafeSlashEscaped ==
    /\ StringEncoded /\ fopts.escape = "html_safe"
    /\ family.items = << 47, 60 >> /\ family.kind = "plain"
    /\ input = Str("\"\\/\\u003c\"")

(***************************************************************************)
(* Pretty printing                                                         *)
(***************************************************************************)

MaxIndent == 2

\* Scalars, empty containers, and lists and maps nested up to four deep.
PrettyTerms ==
    << << "int", 1 >>,
       << "list", << >> >>,
       << "map", NoOptions >>,
       << "list", << << "int", 1 >> >> >>,
       << "list", << << "int", 1 >>, << "int", 2 >> >> >>,
       << "map", Str("a") :> << "int", 1 >> >>,
       << "map", (Str("a") :> << "int", 1 >>)
                    @@ (Str("b") :> << "list", << << "int", 2 >>, << "int", 3 >> >> >>) >>,
       << "list", << << "list", << << "int", 1 >> >> >>, << "list", << >> >> >> >>,
       << "list", << << "map", Str("a") :>
            << "list", << << "int", 1 >>, << "map", Str("b") :> << "int", 2 >> >> >> >> >> >> >>,
       << "map", Str("a") :> << "map", Str("b") :> << "map", NoOptions >> >> >> >>

\* The pretty_opts of a call: absent, or custom separators.
PrettyOpts ==
    { NoOptions,
      [line_separator |-> << CR, LF >>],
      [after_colon |-> << >>],
      [indent |-> << TAB >>],
      [line_separator |-> << >>, after_colon |-> << SPACE, SPACE >>, indent |-> Str("--")] }

\* The option maps of the calls: indent absent, or 0 to MaxIndent.
PrettyOptionMaps ==
    {[pretty_opts |-> po] : po \in PrettyOpts}
        \cup {[pretty_opts |-> po, indent |-> n] : po \in PrettyOpts, n \in 0..MaxIndent}

InitPretty ==
    \/ InitCore
    \/ \E t \in 1..Len(PrettyTerms), om \in PrettyOptionMaps :
          Start(EncodeRun(PrettyTerms[t], encode_direct_options(om),
                          Family("pretty", "term", t, om)))

SpecPretty == InitPretty /\ [][Next]_vars

RECURSIVE Copies(_, _)
Copies(unit, n) == IF n = 0 THEN << >> ELSE unit \o Copies(unit, n - 1)

\* The keys of a map of the family in the order they are written.
RECURSIVE KeysInOrder(_)
KeysInOrder(keys) ==
    IF keys = {} THEN << >>
    ELSE LET first == CHOOSE k \in keys : \A other \in keys : k[1] <= other[1]
         IN  << first >> \o KeysInOrder(keys \ {first})

\* The layout of a term whose container is nested at level d: each item
\* after sep and d + 1 units, the closing bracket after sep and d units,
\* each ':' followed by colon.
RECURSIVE Layout(_, _, _, _, _)
RECURSIVE LayoutItems(_, _, _, _, _, _, _)
LayoutItems(term, keys, i, d, sep, unit, colon) ==
    IF i > (IF term[1] = "list" THEN Len(term[2]) ELSE Len(keys)) THEN << >>
    ELSE (IF i > 1 THEN << COMMA >> ELSE << >>)
            \o sep \o Copies(unit, d + 1)
            \o (IF term[1] = "list" THEN Layout(term[2][i], d + 1, sep, unit, colon)
                ELSE << QUOTE >> \o keys[i] \o << QUOTE, COLON >> \o colon
                        \o Layout(term[2][keys[i]], d + 1, sep, unit, colon))
            \o LayoutItems(term, keys, i + 1, d, sep, unit, colon)

Layout(term, d, sep, unit, colon) ==
    IF term[1] = "int" THEN << ZERO + term[2] >>
    ELSE IF term[1] = "list" /\ term[2] = << >> THEN Str("[]")
    ELSE IF term[1] = "map" /\ DOMAIN term[2] = {} THEN Str("{}")
    ELSE (IF term[1] = "list" THEN << LBRACKET >> ELSE << LBRACE >>)
            \o LayoutItems(term, IF term[1] = "map" THEN KeysInOrder(DOMAIN term[2]) ELSE << >>,
                           1, d, sep, unit, colon)
            \o sep \o Copies(unit, d)
            \o (IF term[1] = "list" THEN << RBRACKET >> ELSE << RBRACE >>)

CompactText(term) == Layout(term, 0, << >>, << >>, << >>)

PrettyEncoded == pc = "new" /\ round = 1 /\ family.name = "pretty"

\* The indent unit of a call: the indent of pretty_opts, or as many spaces
\* as indent says.
IndentUnitOf(om) ==
    IF "indent" \in DOMAIN om.pretty_opts THEN om.pretty_opts.indent
    ELSE [i \in 1..om.indent |-> SPACE]

\* C12: whenever the indent option is present, 0 included, the output is
\* pretty-printed, with line separators between the elements and after_colon
\* after each ':'; it is compact only when the option is absent.
PrettyWheneverIndentPresent ==
    PrettyEncoded =>
        input = IF "indent" \in DOMAIN family.items
                THEN Layout(source, 0,
                            get_opt(family.items.pretty_opts, "line_separator", << LF >>),
                            IndentUnitOf(family.items),
                            get_opt(family.items.pretty_opts, "after_colon", << SPACE >>))
                ELSE CompactText(source)

\* The list of 1 and 2 encoded with indent 0 has come out compact.
IndentZeroCompact ==
    /\ PrettyEncoded
    /\ "indent" \in DOMAIN family.items /\ family.items.indent = 0
    /\ family.items.pretty_opts = NoOptions
    /\ source = PrettyTerms[5]
    /\ input = Str("[1,2]")

\* C13: in pretty mode every item of a non-empty container nested at level
\* d follows line_separator and d + 1 copies of indent_unit, the closing
\* bracket follows line_separator and d copies, and every ':' is followed by
\* after_colon; in compact mode no byte is written between the tokens.
PrettyLayout ==
    PrettyEncoded =>
        input = IF fopts.pretty
                THEN Layout(source, 0, fopts.line_separator, fopts.indent, fopts.after_colon)
                ELSE CompactText(source)

\* The map of a and b, b a list, encoded with indent 2.
PrettyNestedWritten ==
    /\ PrettyEncoded /\ fopts.pretty
    /\ family.items = [pretty_opts |-> NoOptions, indent |-> 2]
    /\ source = PrettyTerms[7]
    /\ input = Str("{") \o << LF >> \o Str("  \"a\": 1,") \o << LF >> \o Str("  \"b\": [")
                 \o << LF >> \o Str("    2,") \o << LF >> \o Str("    3") \o << LF >>
                 \o Str("  ]") \o << LF >> \o Str("}")

(***************************************************************************)
(* strict_keys                                                             *)
(***************************************************************************)

MaxMapKeys == 2

\* Keys of the three types a map key may have, with the text each is
\* written as: the atom a and the string "a", the integer 1 and the string
\* "1", the atom b and the string "10".
StrictKeyTable ==
    << [key |-> << "atom", "a" >>, text |-> Str("a")],
       [key |-> << "binary", Str("a") >>, text |-> Str("a")],
       [key |-> << "int", 1 >>, text |-> Str("1")],
       [key |-> << "binary", Str("1") >>, text |-> Str("1")],
       [key |-> << "atom", "b" >>, text |-> Str("b")],
       [key |-> << "binary", Str("10") >>, text |-> Str("10")] >>

\* The maps of the family, by the table rows of their keys in iteration
\* order: no map holds a key twice.
KeyRowLists ==
    {rows \in UNION {[1..n -> 1..Len(StrictKeyTable)] : n \in 0..MaxMapKeys} :
        \A i, j \in 1..Len(rows) : i # j => rows[i] # rows[j]}

KeyedMap(rows) ==
    << "keyed", [i \in 1..Len(rows) |-> << StrictKeyTable[rows[i]].key, << "int", i >> >>] >>

\* The map alone, twice in a list, and as the value of the key a of
\* another map.
KeyedTerm(kind, rows) ==
    CASE kind = "root" -> KeyedMap(rows)
      [] kind = "pair" -> << "list", << KeyedMap(rows), KeyedMap(rows) >> >>
      [] kind = "inner" -> << "keyed", << << << "atom", "a" >>, KeyedMap(rows) >>,
                                         << << "binary", Str("b") >>, KeyedMap(rows) >> >> >>

InitKeys ==
    \/ InitCore
    \/ \E kind \in {"root", "pair", "inner"}, rows \in KeyRowLists, strict \in BOOLEAN :
          Start(EncodeRun(KeyedTerm(kind, rows),
                          encode_direct_options([strict_keys |-> strict]),
                          Family("keys", kind, 0, rows)))

SpecKeys == InitKeys /\ [][Next]_vars

\* Two entries of the map would be written with the same key text.
SameKeyText(rows) ==
    \E i, j \in 1..Len(rows) :
        i # j /\ StrictKeyTable[rows[i]].text = StrictKeyTable[rows[j]].text

\* The encode of a map of the family has ended: with an error, or with
\* output that has been decoded again.
KeysEncoded == pc = "done" /\ round = 1 /\ family.name = "keys"

\* C14: with strict_keys, encoding fails with the duplicate-key error
\* whenever two entries of one map would be written with the same key text,
\* and no map whose key texts are pairwise distinct is rejected, equal keys
\* in different maps included.
StrictKeys ==
    (KeysEncoded /\ fopts.strict_keys) =>
        IF SameKeyText(family.items)
        THEN ~result.ok /\ result.msg = "duplicate key"
        ELSE result.ok

\* The map of the integer 1 and the string "1" has been rejected.
IntegerAndStringRejected ==
    /\ KeysEncoded /\ fopts.strict_keys
    /\ family.kind = "root" /\ family.items = << 3, 4 >>
    /\ ~result.ok /\ result.msg = "duplicate key"

(***************************************************************************)
(* Decimal records: number texts decoded with floats_decimals, the record  *)
(* then encoded                                                            *)
(***************************************************************************)

MaxFracLen == 2
MaxDecimalExp == 2

\* Integer parts: short ones, the first 38 digits of i128::MAX and all 39.
DecimalIntParts ==
    {Str("0"), Str("5"), Str("120"), SubSeq(I128_MAX, 1, Len(I128_MAX) - 1), I128_MAX}

\* Fractions of up to MaxFracLen digits out of 0, 7 and 8: the first 38
\* digits of i128::MAX followed by 7 are i128::MAX, followed by 8 the
\* integer after it.
DecimalFractions == UNION {[1..n -> {Ord("0"), Ord("7"), Ord("8")}] : n \in 0..MaxFracLen}

\* The exponent part of a number text: nothing for e = NoExponent.
NoExponent == MaxDecimalExp + 1
ExponentPart(mark, e) ==
    IF e = NoExponent THEN << >>
    ELSE IF e < 0 THEN << mark, MINUS >> \o itoa_format(-e)
    ELSE << mark >> \o itoa_format(e)

DecimalLiteral(neg, int_part, frac, mark, e) ==
    (IF neg THEN << MINUS >> ELSE << >>) \o int_part
    \o (IF frac = << >> THEN << >> ELSE << DOT >> \o frac) \o ExponentPart(mark, e)

DecimalRun(neg, int_part, frac, e) ==
    DecodeRun(DecimalLiteral(neg, int_part, frac, IF neg THEN Ord("E") ELSE Ord("e"), e),
              FloatsDecimals, Family("decimal", "root", e, << int_part, frac >>))

InitDecimal ==
    \/ InitCore
    \/ \E neg \in BOOLEAN, int_part \in DecimalIntParts, frac \in DecimalFractions,
          e \in (-MaxDecimalExp)..NoExponent :
          /\ frac # << >> \/ e # NoExponent
          /\ Start(DecimalRun(neg, int_part, frac, e))
SpecDecimal == InitDecimal /\ [][Next]_vars

\* Whether a text denotes sign * coef * 10^exp: an optional '-', digits,
\* and, only for exp < 0, a point followed by exactly -exp digits; the
\* digits without the point are those of coef, followed by exp zeros for
\* exp > 0, leading zeros aside.
DenotesDecimal(text, d) ==
    \E body \in {IF d.sign < 0 /\ text # << >> THEN Tail(text) ELSE text} :
    \E point \in {FirstIndexOf(body, {DOT})} :
        /\ d.sign < 0 => text # << >> /\ text[1] = MINUS
        /\ point > 1
        /\ point # Len(body)
        /\ \A k \in 1..Len(body) : k # point => IsAsciiDigit(body[k])
        /\ (IF point > Len(body) THEN 0 ELSE Len(body) - point)
               = (IF d.exp < 0 THEN -d.exp ELSE 0)
        /\ TrimZeros(SubSeq(body, 1, point - 1) \o SubSeq(body, point + 1, Len(body)))
               = TrimZeros(d.coef \o Zeros(IF d.exp > 0 THEN d.exp ELSE 0))

\* A decimal record the decoder returned has been encoded.
DecimalEncoded ==
    pc = "new" /\ round = 1 /\ family.name = "decimal" /\ source[1] = "decimal"

\* C15: every decimal record with a non-negative coefficient, those the
\* decoder produces under floats_decimals among them, is written as a
\* quoted string that denotes sign * coefficient * 10^exponent, without a
\* point for exponent >= 0 and with exactly -exponent fractional digits
\* for exponent < 0.
DecimalAsString ==
    DecimalEncoded =>
        /\ Len(input) >= 2
        /\ input[1] = QUOTE
        /\ input[Len(input)] = QUOTE
        /\ DenotesDecimal(SubSeq(input, 2, Len(input) - 1), source[2])

\* The record of a number text of 40 digits, whose coefficient is no i128,
\* has been written as an object.
WideCoefficientAsObject ==
    /\ DecimalEncoded
    /\ ~decode_i128_ok(source[2].coef)
    /\ input[1] = LBRACE

(***************************************************************************)
(* Arrays of objects nested in one another, the second object of each      *)
(* array matching the shape of the first or not                            *)
(***************************************************************************)

MaxMismatchNest == 3

\* [{"a":0,"b":0},{"a":inner,"b":0}] for the kind "match": the second object
\* has the keys of the first.  Its last key is c for "mismatch", and it has
\* no second key for "short": parse_object_shaped finds either out after
\* the value of a.
RECURSIVE NestedDoc(_, _)
NestedDoc(kind, n) ==
    IF n = 0 THEN Str("7")
    ELSE Str("[{\"a\":0,\"b\":0},{\"a\":") \o NestedDoc(kind, n - 1)
         \o (CASE kind = "match" -> Str(",\"b\":0}]")
               [] kind = "mismatch" -> Str(",\"c\":0}]")
               [] kind = "short" -> Str("}]"))

NestedRun(kind, n) ==
    DecodeRun(NestedDoc(kind, n), DefaultDecodeOptions, Family("nested", kind, n, << >>))

InitNested ==
    \/ InitCore
    \/ \E kind \in {"match", "mismatch", "short"}, n \in 0..MaxMismatchNest :
          Start(NestedRun(kind, n))
SpecNested == InitNested /\ [][Next]_vars

\* C16: the work of one decode is proportional to the length of the input:
\* a value parser is called at each offset at most twice (once more after
\* a shape mismatch), however deep arrays of objects are nested.
ParsedAtMostTwice ==
    family.name = "nested" => \A p \in DOMAIN parsed : parsed[p] <= 2

\* The innermost value of MaxMismatchNest nested arrays of mismatching
\* objects has been parsed 2^MaxMismatchNest times.
NestedWorkDoubles ==
    /\ pc = "done"
    /\ result.ok
    /\ family.name = "nested"
    /\ family.kind = "mismatch"
    /\ family.n = MaxMismatchNest
    /\ \E p \in DOMAIN parsed : parsed[p] = 2 ^ family.n

(***************************************************************************)
(* Runs of the output writer                                               *)
(***************************************************************************)

MaxAppends == 3

\* Buffers of no byte, of one byte and of more than MIN_GROW_CAPACITY bytes,
\* appended to a writer created empty or with room for 100 bytes: a growth
\* is to MIN_GROW_CAPACITY, to twice the capacity, or to what is required.
AppendLengths == {0, 1, MIN_GROW_CAPACITY + 2}
InitialCapacities == {0, 100}

InitWriter ==
    \/ InitCore
    \/ \E initial_cap \in InitialCapacities,
          lengths \in UNION {[1..n -> AppendLengths] : n \in 0..MaxAppends} :
          StartWriter(initial_cap, lengths)
SpecWriter == InitWriter /\ [][Next]_vars

\* The first k buffers of the run, one after the other.
RECURSIVE Appended(_)
Appended(k) ==
    IF k = 0 THEN << >>
    ELSE Appended(k - 1) \o Buffer(k, family.items[k])

\* C17: when an allocation fails while the writer is created or grown, the
\* writer gives its caller an error result, and it never panics.
AllocationFailureReported ==
    /\ nif_writer.returned # "panic"
    /\ nif_writer.alloc_failed => nif_writer.returned = "Err"

\* A write that had to grow the buffer has panicked, bytes already written.
PanicWhileGrowing ==
    /\ nif_writer.state = "panicked"
    /\ nif_writer.alloc_failed
    /\ nif_writer.pos > 0

MaxGapLen == 2

\* What stands between two tokens: spaces, a byte that belongs to no token,
\* a comma too many.
Gaps == UNION {[1..n -> {SPACE, Ord("x"), COMMA}] : n \in 0..MaxGapLen}

\* An object of the keys a and b with the gap after the key a, the value of
\* a, the key b or the value of b.
GapObject(at, gap) ==
    Str("{\"a\"") \o (IF at = 1 THEN gap ELSE << >>)
    \o Str(":1") \o (IF at = 2 THEN gap ELSE << >>)
    \o Str(",\"b\"") \o (IF at = 3 THEN gap ELSE << >>)
    \o Str(":2") \o (IF at = 4 THEN gap ELSE << >>) \o Str("}")

\* The documents: the gap after the first or a later element of an array;
\* in an object at the root (parse_object), first in an array
\* (parse_object_capture_shape) and after an object of the same keys
\* (parse_object_shaped); after a string that holds brackets, commas and an
\* escaped quote.
IndexKinds == {"first", "later", "last", "string"} \cup ({"object", "capture", "shaped"} \X (1..4))

GapDoc(kind, gap) ==
    CASE kind = "first" -> Str("[1") \o gap \o Str(",2]")
      [] kind = "later" -> Str("[1,2") \o gap \o Str(",3]")
      [] kind = "last" -> Str("[1,2") \o gap \o Str("]")
      [] kind = "string" -> Str("[\"[,\\\"]{\"") \o gap \o Str(",\":\"]")
      [] OTHER ->
           CASE kind[1] = "object" -> GapObject(kind[2], gap)
             [] kind[1] = "capture" -> Str("[") \o GapObject(kind[2], gap) \o Str("]")
             [] kind[1] = "shaped" ->
                  Str("[{\"a\":1,\"b\":2},") \o GapObject(kind[2], gap) \o Str("]")

\* The document made long enough for an index by spaces before it, after
\* its gap, or after it.
IndexDoc(kind, gap, pad) ==
    CASE pad = "lead" -> Spaces(STRUCTURAL_INDEX_THRESHOLD) \o GapDoc(kind, gap)
      [] pad = "gap" -> GapDoc(kind, gap \o Spaces(STRUCTURAL_INDEX_THRESHOLD))
      [] pad = "trail" -> GapDoc(kind, gap) \o Spaces(STRUCTURAL_INDEX_THRESHOLD)

IndexRun(kind, gap, pad) ==
    DecodeRun(IndexDoc(kind, gap, pad), DefaultDecodeOptions, Family("index", kind, 0, gap))

InitIndex ==
    \/ InitCore
    \/ \E kind \in IndexKinds, gap \in Gaps, pad \in {"lead", "gap", "trail"} :
          Start(IndexRun(kind, gap, pad))
SpecIndex == InitIndex /\ [][Next]_vars

\* C19: a decode with the structural index has the outcome of a decode of
\* the same input by whitespace skipping alone: the same term, or the same
\* error at the same offset.
IndexedOutcomeSame ==
    (pc = "done" /\ round = 2) => result = first_result

\* Both decodes of a document have failed at a byte between two tokens,
\* behind offsets the first decode jumped to.
IndexedErrorSame ==
    /\ pc = "done" /\ round = 2
    /\ family.name = "index"
    /\ ~result.ok
    /\ result = first_result
    /\ result.at > STRUCTURAL_INDEX_THRESHOLD + 4

(***************************************************************************)
(* Key shapes: arrays whose second object is the first with one byte       *)
(* replaced, removed or added                                              *)
(***************************************************************************)

MaxShapeTail == 1

\* The first object of the array, whose shape parse_array captures: empty,
\* of one key, of two keys, with a container as first value, with a key
\* twice.
ShapeObjects ==
    << Str("{}"), Str("{\"a\":1}"), Str("{\"a\":1,\"b\":2}"), Str("{\"a\":[1],\"b\":2}"),
       Str("{\"a\":1,\"a\":2}") >>

\* The bytes an edit puts in: a control character among them.
EditBytes == {QUOTE, COLON, COMMA, RBRACE, LBRACKET, BACKSLASH, SPACE, 1,
              Ord("1"), Ord("0"), MINUS, DOT, Ord("a")}

\* The text with b in place of byte at ("replace"), without byte at
\* ("remove"), with b before byte at ("insert"), or as it is ("keep").
Edited(text, edit, at, b) ==
    CASE edit = "replace" -> [text EXCEPT ![at] = b]
      [] edit = "remove" -> SubSeq(text, 1, at - 1) \o SubSeq(text, at + 1, Len(text))
      [] edit = "insert" -> SubSeq(text, 1, at - 1) \o << b >> \o SubSeq(text, at, Len(text))
      [] edit = "keep" -> text

\* [first,edited] followed by tail more copies of the first object.
RECURSIVE ShapeTail(_, _)
ShapeTail(first, tail) ==
    IF tail = 0 THEN << >> ELSE << COMMA >> \o first \o ShapeTail(first, tail - 1)

ShapeDoc(first, second, tail) ==
    << LBRACKET >> \o first \o << COMMA >> \o second \o ShapeTail(first, tail)
    \o << RBRACKET >>

ShapeRun(i, edit, at, b, tail, o) ==
    DecodeRun(ShapeDoc(ShapeObjects[i], Edited(ShapeObjects[i], edit, at, b), tail), o,
              Family("shape", edit, tail, << i, at, b >>))

InitShape ==
    \/ InitCore
    \/ \E i \in 1..Len(ShapeObjects), tail \in 0..MaxShapeTail,
          o \in {DefaultDecodeOptions, RejectDuplicates} :
          \/ Start(ShapeRun(i, "keep", 0, 0, tail, o))
          \/ \E at \in 1..Len(ShapeObjects[i]), b \in EditBytes :
                 \/ Start(ShapeRun(i, "replace", at, b, tail, o))
                 \/ Start(ShapeRun(i, "insert", at, b, tail, o))
          \/ \E at \in 1..Len(ShapeObjects[i]) : Start(ShapeRun(i, "remove", at, 0, tail, o))
SpecShape == InitShape /\ [][Next]_vars

\* C20: the decode of an array whose objects go through
\* parse_object_capture_shape and parse_object_shaped has the outcome of a
\* decode that parses every object with parse_object: the same term, or
\* the same error at the same offset.
ShapedOutcomeSame ==
    (pc = "done" /\ round = 3) => result = first_result

\* Both decodes have failed inside the second object of an array, behind a
\* key that matched the shape of the first.
ShapedErrorSame ==
    /\ pc = "done" /\ round = 3
    /\ family.name = "shape"
    /\ ~result.ok
    /\ result = first_result
    /\ result.at > Len(ShapeObjects[family.items[1]]) + 6

(***************************************************************************)
(* Shape mismatches: arrays of three objects whose second object departs   *)
(* from the keys of the first                                              *)
(***************************************************************************)

\* How far around MAX_DEPTH the arrays around a mismatching object nest.
RewindDepthSpan == 1

\* The byte-at-a-time scan of the n bytes from offset a on: a quote that no
\* backslash escapes opens or closes a string, a backslash in a string
\* escapes the next byte, and a bracket, brace, colon or comma outside
\* strings is structural.
ByteAtATime(st, b, at) ==
    IF st.prev_escape THEN [st EXCEPT !.prev_escape = FALSE]
    ELSE IF b = BACKSLASH /\ st.in_string THEN [st EXCEPT !.prev_escape = TRUE]
    ELSE IF b = QUOTE THEN [st EXCEPT !.in_string = ~@]
    ELSE IF ~st.in_string /\ b \in {LBRACE, RBRACE, LBRACKET, RBRACKET, COLON, COMMA}
    THEN [st EXCEPT !.positions = Append(@, at)]
    ELSE st

RECURSIVE ScanBytes(_, _, _, _)
ScanBytes(bytes, a, n, st) ==
    IF n = 0 THEN st
    ELSE IF n = 1 THEN ByteAtATime(st, At(bytes, a), a)
    ELSE TheOne({ScanBytes(bytes, a + (n \div 2), n - (n \div 2), mid) :
                     mid \in {ScanBytes(bytes, a, n \div 2, st)}})

\* The offsets below upto of the structural bytes outside strings.
StructuralBefore(bytes, upto) ==
    ScanBytes(bytes, 0, upto, [positions |-> << >>, in_string |-> FALSE,
                               prev_escape |-> FALSE]).positions

\* How many of the first i offsets hold an opening bracket or brace, less
\* how many hold a closing one.
OpenExcess(bytes, offsets, i) ==
    Cardinality({j \in 1..i : At(bytes, offsets[j]) \in {LBRACE, LBRACKET}})
        - Cardinality({j \in 1..i : At(bytes, offsets[j]) \in {RBRACE, RBRACKET}})

\* The number of containers open at offset p: opened before p and not
\* closed before p.
OpenContainers(bytes, p) ==
    OpenExcess(bytes, StructuralBefore(bytes, p), Len(StructuralBefore(bytes, p)))

\* The offset of the innermost of them: of the last opening bracket or
\* brace before p that nothing before p closes.
StillOpen(bytes, offsets, i) ==
    /\ At(bytes, offsets[i]) \in {LBRACE, LBRACKET}
    /\ \A j \in i..Len(offsets) :
           OpenExcess(bytes, offsets, j) >= OpenExcess(bytes, offsets, i)

InnermostAmong(bytes, offsets) ==
    MaxOf({offsets[i] : i \in {k \in 1..Len(offsets) : StillOpen(bytes, offsets, k)}})

InnermostOpen(bytes, p) == InnermostAmong(bytes, StructuralBefore(bytes, p))

\* The value of the key a: a number, which makes the object flat, or an
\* array of two objects of different keys.
RewindValues == << Str("1"), Str("[{\"a\":1},{\"b\":[]}]") >>

\* The objects of the arrays.  "match" has the keys a and b, the value of b
\* a string that holds a brace; the others are met after it and differ in
\* the bytes of the first or of the second key, have a number in place of
\* the second key, lack the second key, have a third key, or are empty.
RewindObject(kind, v) ==
    CASE kind = "match" -> Str("{\"a\":") \o v \o Str(",\"b\":\"}\"}")
      [] kind = "bytes" -> Str("{\"a\":") \o v \o Str(" , \"c\":\"}\"}")
      [] kind = "first" -> Str("{ \"x\":") \o v \o Str(",\"b\":\"}\"}")
      [] kind = "nonstring" -> Str("{\"a\":") \o v \o Str(",5:\"}\"}")
      [] kind = "fewer" -> Str("{\"a\":") \o v \o Str(" }")
      [] kind = "more" -> Str("{\"a\":") \o v \o Str(",\"b\":\"}\" ,\"c\":0}")
      [] kind = "empty" -> Str("{}")

RewindKinds == {"match", "bytes", "first", "nonstring", "fewer", "more", "empty", "nonempty"}

\* [first,second,third]: the second object departs from the shape of the
\* first; for "nonempty" the first is empty and the second is not.
RewindDoc(kind, v) ==
    IF kind = "nonempty"
    THEN Str("[{},") \o RewindObject("match", v) \o Str(",{}]")
    ELSE Str("[") \o RewindObject("match", v) \o Str(",") \o RewindObject(kind, v)
         \o Str(" ,") \o RewindObject("match", v) \o Str("]")

\* The document as it is, or made long enough for a structural index by
\* spaces before or after it.
RewindPadded(doc, pad) ==
    CASE pad = "none" -> doc
      [] pad = "lead" -> Spaces(STRUCTURAL_INDEX_THRESHOLD) \o doc
      [] pad = "trail" -> doc \o Spaces(STRUCTURAL_INDEX_THRESHOLD)

RewindRun(kind, i, pad, o) ==
    DecodeRun(RewindPadded(RewindDoc(kind, RewindValues[i]), pad), o,
              Family("rewind", kind, i, pad))

\* [[...[{"a":1},{"b":2}]...]]: the two objects n levels deep.
RewindDeepDoc(n) ==
    Cycle(<< LBRACKET >>, n - 1) \o Str("{\"a\":1},{\"b\":2}") \o Cycle(<< RBRACKET >>, n - 1)

RewindDeepRun(n) ==
    DecodeRun(RewindDeepDoc(n), DefaultDecodeOptions, Family("rewind", "deep", n, "none"))

InitRewind ==
    \/ InitCore
    \/ \E kind \in RewindKinds, i \in 1..Len(RewindValues), pad \in {"none", "lead", "trail"},
          o \in {DefaultDecodeOptions, OrderedObjects} :
          Start(RewindRun(kind, i, pad, o))
    \/ \E n \in (MAX_DEPTH - RewindDepthSpan)..(MAX_DEPTH + RewindDepthSpan) :
          Start(RewindDeepRun(n))
SpecRewind == InitRewind /\ [][Next]_vars

\* A step of rewind_and_fallback!: parse_object_shaped hands the object to
\* parse_object.
RewindStep == pc' = "value" /\ how' = "object"

\* The '{' of the object parse_object_shaped is parsing: where the parser
\* stands when the call begins, the innermost open container afterwards.
ShapedObjectStart == IF pc = "value" THEN pos ELSE InnermostOpen(input, pos)

\* C21: a shape mismatch puts the byte cursor back on the '{' of the
\* object, the cursor of the structural index on the entry of that '{' and
\* the depth counter to the number of containers open there, clears the
\* shape of the enclosing array, and parse_object parses the object from
\* its '{'.
RewindRestores ==
    [][RewindStep =>
          /\ pos' = ShapedObjectStart
          /\ Peek(input, pos') = LBRACE
          /\ depth' = OpenContainers(input, pos')
          /\ IF structural_index.present
             THEN /\ cursor' < Len(structural_index.positions)
                  /\ structural_index.positions[cursor' + 1] = pos'
             ELSE cursor' = 0
          /\ stack'[Len(stack')].kind = "array"
          /\ stack'[Len(stack')].shape = NoShape
          /\ OpensObject'
      ]_vars

\* parse_object is about to parse, for the second time, the object whose
\* third key was one more than the shape has, in a document with a
\* structural index.
RewoundAfterValues ==
    /\ pc = "value" /\ how = "object"
    /\ family.name = "rewind" /\ family.kind = "more"
    /\ structural_index.present
    /\ cursor > 0
    /\ parsed[pos] = 2
    /\ Top.shape = NoShape

\* A decode is under way: DirectParser::parse has not returned.
Decoding == pc \in {"parse", "value", "return"}

\* C22 as stated: no step of a decode moves the byte cursor back.
CursorNeverDecreases ==
    [][Decoding => pos' >= pos]_vars

\* C22, amended: no step of a decode moves the byte cursor back, but for a
\* shape mismatch of parse_object_shaped, which puts it back on the '{' of
\* the object it was parsing.
CursorDecreasesOnlyToRewind ==
    [][Decoding =>
          \/ pos' >= pos
          \/ RewindStep /\ pos' = InnermostOpen(input, pos)
      ]_vars

\* parse_object is about to parse an object that lacks the second key of
\* the shape, after the value of its first key had been parsed further on.
RewoundBehindParsedValue ==
    /\ pc = "value" /\ how = "object"
    /\ family.name = "rewind" /\ family.kind = "fewer"
    /\ \E p \in DOMAIN parsed : p > pos

\* The states of a decode of a given input, its end included.
InDecode == round # 1 /\ pc \in {"parse", "value", "return", "done"}

\* C23 as stated: in every state of a decode the depth counter is the
\* number of containers that are open, and at most 128.
DepthIsOpenContainers ==
    InDecode =>
        /\ depth <= MAX_DEPTH
        /\ Decoding => depth = OpenContainers(input, pos)

\* C23, amended: in every state of a decode that has not failed the depth
\* counter is the number of containers that are open, at most 128, and 0
\* at the end; in a decode that has failed it is at most 129, and 129 for
\* the nesting-depth error alone, whose call has counted the container it
\* rejects.
DepthIsOpenContainersUnlessRejected ==
    InDecode =>
        /\ Decoding => depth = OpenContainers(input, pos) /\ depth <= MAX_DEPTH
        /\ (pc = "done" /\ result.ok) => depth = 0
        /\ (pc = "done" /\ ~result.ok) =>
               /\ depth <= MAX_DEPTH + 1
               /\ depth = MAX_DEPTH + 1 <=> result.msg = "Nesting depth exceeds maximum"

\* A decode has ended well whose two objects at level 128 did not match, so
\* that the second was parsed twice.
DeepRewindBalanced ==
    /\ pc = "done" /\ round = 0
    /\ result.ok
    /\ family.name = "rewind" /\ family.kind = "deep" /\ family.n = MAX_DEPTH
    /\ depth = 0
    /\ \E p \in DOMAIN parsed : parsed[p] = 2

\* How many entries of the index lie before offset p.
EntriesBefore(idx, p) ==
    Cardinality({i \in 1..Len(idx.positions) : idx.positions[i] < p})

\* The offset of the structural byte the parser consumes next, or -1: the
\* bracket or brace that opens the value it is at, or the comma, bracket or
\* brace it finds after the value that has been parsed.
NextConsumed ==
    IF pc = "value"
    THEN IF Peek(input, pos) \in {LBRACKET, LBRACE} /\ how # "number_fast" /\ how # "string"
         THEN pos ELSE -1
    ELSE IF pc = "return" /\ stack # << >>
              /\ Peek(input, advance_to_structural(input, pos, structural_index, cursor))
                     \in {COMMA, RBRACKET, RBRACE}
    THEN advance_to_structural(input, pos, structural_index, cursor)
    ELSE -1

\* C24: while a decode with a structural index is under way, the entries
\* before the consume cursor are the entries before the byte cursor, and
\* the structural byte the parser is about to consume is the entry under
\* the consume cursor, also after a shape mismatch has put both back.
IndexInLockstep ==
    (Decoding /\ structural_index.present) =>
        /\ cursor = EntriesBefore(structural_index, pos)
        /\ NextConsumed # -1 =>
               /\ cursor < Len(structural_index.positions)
               /\ structural_index.positions[cursor + 1] = NextConsumed

\* The parser is about to consume the ']' that ends an array, the last
\* entry of the index, after one of the objects was parsed twice.
LastEntryAfterRewind ==
    /\ pc = "return" /\ round = 0
    /\ family.name = "rewind" /\ family.kind = "bytes" /\ family.items = "lead"
    /\ Len(stack) = 1
    /\ \E p \in DOMAIN parsed : parsed[p] = 2
    /\ cursor = Len(structural_index.positions) - 1
    /\ structural_index.positions[cursor + 1] = NextConsumed
    /\ Peek(input, NextConsumed) = RBRACKET

(***************************************************************************)
(* The passes of build_structural_index: strings and escapes that end at,  *)
(* begin at or span the end of a chunk                                     *)
(***************************************************************************)

\* The number of bytes around the end of the first chunk that vary.
MaxWindowLen == 4

WindowBytes == {QUOTE, BACKSLASH, COMMA, LBRACE, Ord("x")}

WindowStart == CHUNK - (MaxWindowLen \div 2)

Filler(n) == [i \in 1..n |-> Ord("x")]

\* head, bytes without meaning up to the window, the window across offset
\* CHUNK, then a quote and a comma at the start of the third chunk, a chunk
\* of bytes without meaning, a quote and a comma, and a colon, a quote, a
\* brace and a comma behind the last whole chunk.
ChunkDoc(head, window) ==
    << head >> \o Filler(WindowStart - 1) \o window
    \o Filler(2 * CHUNK - WindowStart - Len(window)) \o Str("\",") \o Filler(CHUNK - 2)
    \o Filler(CHUNK) \o Str("\",")
    \o Filler(STRUCTURAL_INDEX_THRESHOLD - 4 * CHUNK - 2) \o Str(":\"},")

ChunkRun(head, window) ==
    DecodeRun(ChunkDoc(head, window), DefaultDecodeOptions, Family("chunk", head, 0, window))

InitChunk ==
    \/ InitCore
    \/ \E head \in {QUOTE, LBRACKET}, window \in [1..MaxWindowLen -> WindowBytes] :
          Start(ChunkRun(head, window))
SpecChunk == InitChunk /\ [][Next]_vars

\* C25: the index DirectParser::new has built for the input of a decode
\* holds exactly the offsets, in increasing order, of the brackets, braces,
\* colons and commas that the byte-at-a-time scan of the whole input finds
\* outside strings.
IndexIsByteAtATime ==
    (Decoding /\ structural_index.present) =>
        /\ structural_index.positions = StructuralBefore(input, Len(input))
        /\ \A i \in 1..(Len(structural_index.positions) - 1) :
               structural_index.positions[i] < structural_index.positions[i + 1]
        /\ \A i \in 1..Len(structural_index.positions) :
               IsStructural(At(input, structural_index.positions[i]))

\* An index has been built for an input whose first chunk ends with a
\* backslash in a string and whose second chunk holds nothing structural:
\* the quote that begins the third chunk has ended the string, so that the
\* comma after it is in the index.
EscapeBeforeSkippedChunk ==
    /\ Decoding /\ structural_index.present
    /\ family.name = "chunk" /\ family.kind = QUOTE
    /\ At(input, CHUNK - 2) = Ord("x")
    /\ At(input, CHUNK - 1) = BACKSLASH
    /\ ~chunk_has_structural(input, CHUNK)
    /\ \E i \in 1..Len(structural_index.positions) :
           structural_index.positions[i] = 2 * CHUNK + 1

(***************************************************************************)
(* The key cache.  parse_string_impl looks an escape-free key up in        *)
(* key_cache and inserts it while the cache holds fewer than               *)
(* MAX_INTERN_KEYS keys.                                                   *)
(***************************************************************************)

\* How far below MAX_INTERN_KEYS the caches parse_key is run on start.
CacheRoom == 1

\* How many keys the objects of the family have at most.
MaxInternDocKeys == 3

LowerA == Ord("a")

\* Key number i: three lower-case letters, different for different i.
InternKey(i) ==
    << LowerA + ((i \div 676) % 26), LowerA + ((i \div 26) % 26), LowerA + (i % 26) >>

\* The cache of a parser that has met the keys number 0 to c - 1.
CacheOf(c) == {InternKey(i) : i \in 0..(c - 1)}

\* "abc":0 followed by sep, for key number i.
InternEntry(i, sep) == << QUOTE >> \o InternKey(i) \o << QUOTE, COLON, Ord("0"), sep >>

\* The key with an escape that opens every object of the family, and the
\* bytes it stands for.
EscapedKey == Str("e\\nk")
EscapedKeyBytes == << Ord("e"), 10, Ord("k") >>

\* {"e\nk":1,"aaa":0,"aab":0,...}: the escaped key, then n distinct keys.
InternDoc(n) ==
    Str("{\"") \o EscapedKey \o Str("\":1,")
    \o [j \in 1..(8 * n) |->
           InternEntry((j - 1) \div 8, IF j = 8 * n THEN RBRACE ELSE COMMA)[((j - 1) % 8) + 1]]

InternRun(n, o) == DecodeRun(InternDoc(n), o, Family("intern", "doc", n, << >>))

\* The keys parse_key is run on: one of the cache, one that is new to every
\* cache of the family, one with an escape, and the escape-free spelling
\* of the bytes the escaped one stands for.
ProbeKeys ==
    << [raw |-> InternKey(0), bytes |-> InternKey(0)],
       [raw |-> InternKey(MAX_INTERN_KEYS + CacheRoom),
        bytes |-> InternKey(MAX_INTERN_KEYS + CacheRoom)],
       [raw |-> EscapedKey, bytes |-> EscapedKeyBytes],
       [raw |-> Str("\\u0061aa"), bytes |-> InternKey(0)] >>

\* A parser with c keys in its cache is about to parse the key number k of
\* ProbeKeys.
ProbeRun(c, k, o) == KeyRun(ProbeKeys[k].raw, o, Family("intern", "key", c, k))

InitIntern ==
    \/ InitCore
    \/ \E n \in 1..MaxInternDocKeys, o \in {DefaultDecodeOptions, InternKeys} :
          Start(InternRun(n, o))
    \/ \E k \in 1..Len(ProbeKeys) : StartKey(ProbeRun(0, k, DefaultDecodeOptions), {})
    \/ \E c \in {0} \cup ((MAX_INTERN_KEYS - CacheRoom)..MAX_INTERN_KEYS),
          k \in 1..Len(ProbeKeys) :
          StartKey(ProbeRun(c, k, InternKeys), CacheOf(c))
SpecIntern == InitIntern /\ [][Next]_vars

\* How many of the three-letter keys parse_key has parsed when the parser
\* of the family's object is at offset p: the first entry is 10 bytes long,
\* every other one 8.
InternKeysParsed(p) == IF p < 16 THEN 0 ELSE (p - 8) \div 8

InInternObject ==
    family.name = "intern" /\ family.kind = "doc"
    /\ pc \in {"value", "return", "done"} /\ round # 1

\* parse_key has returned in a run of the family.
KeyParsed == family.name = "intern" /\ family.kind = "key" /\ pc = "done" /\ round = 0

HasEscape(raw) == \E j \in 1..Len(raw) : raw[j] = BACKSLASH

\* The keys of a decoded object.
DecodedKeys(term) ==
    IF term[1] = "ordered" THEN {term[2][i][1][2] : i \in 1..Len(term[2])}
    ELSE DOMAIN term[2]

\* C26: the key cache never holds more than MAX_INTERN_KEYS keys and never
\* a key with an escape; a key parsed when the cache is full, or one with
\* an escape, comes back as its own bytes and leaves the cache as it was,
\* and any other key is in the cache afterwards.
KeyCacheCapped ==
    /\ Cardinality(key_cache) <= MAX_INTERN_KEYS
    /\ \A k \in key_cache : ~HasEscape(k)
    /\ KeyParsed =>
          /\ result.ok
          /\ result.term = << "binary", ProbeKeys[family.items].bytes >>
          /\ key_cache =
                IF opts.intern_keys /\ ~HasEscape(ProbeKeys[family.items].raw)
                   /\ family.n < MAX_INTERN_KEYS
                THEN CacheOf(family.n) \cup {ProbeKeys[family.items].raw}
                ELSE CacheOf(IF opts.intern_keys THEN family.n ELSE 0)
    /\ InInternObject =>
          /\ key_cache = IF opts.intern_keys THEN CacheOf(InternKeysParsed(pos)) ELSE {}
          /\ (stack # << >> /\ InternKeysParsed(pos) > 0) =>
                Top.keys[Len(Top.keys)] = << "binary", InternKey(InternKeysParsed(pos) - 1) >>
          /\ pc = "done" =>
                /\ result.ok
                /\ DecodedKeys(result.term) = {EscapedKeyBytes} \cup CacheOf(family.n)

\* A new key without escape was parsed by a parser whose cache was full:
\* it came back as its bytes and the cache does not have it.
NewKeyAtFullCache ==
    /\ KeyParsed /\ result.ok
    /\ opts.intern_keys
    /\ family.n = MAX_INTERN_KEYS
    /\ Cardinality(key_cache) = MAX_INTERN_KEYS
    /\ ~HasEscape(ProbeKeys[family.items].raw)
    /\ ProbeKeys[family.items].raw \notin key_cache
    /\ result.term = << "binary", ProbeKeys[family.items].raw >>

(***************************************************************************)
(* The exact-boundary scanners of simd_utils against a scan that looks at  *)
(* one byte at a time.                                                     *)
(***************************************************************************)

\* How many whole chunks the runs of the family's documents span at most.
MaxRunChunks == 2

\* The lengths around the chunk boundaries.
RunLengths ==
    {k * CHUNK + r : k \in 0..MaxRunChunks, r \in {-1, 0, 1}} \cap (0..(MaxRunChunks * CHUNK + 1))

\* [ spaces digits , "xxx\nxxx" spaces ]: a run of whitespace, of digits
\* and of plain string bytes, each of a length of its own; the digits are
\* more than parse_number takes for a machine integer.
ScanDoc(ws, digits, plain) ==
    << LBRACKET >> \o Spaces(ws) \o Cycle(<< Ord("7") >>, FAST_DIGITS + 1 + digits)
    \o Str(",\"")
    \o Cycle(<< Ord("x") >>, plain) \o Str("\\n") \o Cycle(<< Ord("x") >>, plain)
    \o << QUOTE >> \o Spaces(ws) \o << RBRACKET >>

ScanRun(ws, digits, plain) ==
    DecodeRun(ScanDoc(ws, digits, plain), DefaultDecodeOptions,
              Family("scan", "runs", ws, << digits, plain >>))

InitScan ==
    \/ InitCore
    \/ \E ws \in RunLengths, digits \in RunLengths, plain \in RunLengths :
          Start(ScanRun(ws, digits, plain))
SpecScan == InitScan /\ [][Next]_vars

\* The first offset from p on whose byte is no digit, no whitespace, or
\* needs a JSON escape: the end of the input when there is none.
FirstNonDigit(bytes, p) ==
    MinOf({q \in p..Len(bytes) : q = Len(bytes) \/ ~IsAsciiDigit(At(bytes, q))})
FirstNonWhitespace(bytes, p) ==
    MinOf({q \in p..Len(bytes) : q = Len(bytes) \/ ~IsWhitespace(At(bytes, q))})
FirstJsonEscape(bytes, p) ==
    MinOf({q \in p..Len(bytes) : q = Len(bytes) \/ NeedsJsonEscape(At(bytes, q))})

InScanRun == family.name = "scan" /\ round = 0

\* C27: from every start offset of the input, skip_ascii_digits,
\* skip_whitespace and find_escape_json stop at the first offset whose byte
\* is outside their class, or at the end of the input.
ScannersExact ==
    InScanRun =>
       \A p \in 0..Len(input) :
          /\ skip_ascii_digits(input, p) = FirstNonDigit(input, p)
          /\ simd_skip_whitespace(input, p) = FirstNonWhitespace(input, p)
          /\ find_escape_json(input, p) = FirstJsonEscape(input, p)

\* The parser is on the whitespace before the closing bracket, less than a
\* chunk from the end of the input: skip_whitespace of simd_utils leaves
\* the offset where it is, the scalar loop of the parser moves on.
WhitespaceTailNotSkipped ==
    /\ InScanRun /\ pc = "return" /\ stack # << >>
    /\ IsWhitespace(Peek(input, pos))
    /\ simd_skip_whitespace(input, pos) = pos
    /\ FirstNonWhitespace(input, pos) > pos
    /\ skip_whitespace(input, pos) = FirstNonWhitespace(input, pos)

(***************************************************************************)
(* parse_number_fast against parse_number.                                 *)
(***************************************************************************)

\* How many bytes the short tokens of the family have.
MaxFastLen == 3

FastTokens ==
    {t \in UNION {[1..n -> NumberBytes] : n \in 1..MaxFastLen} : IsNumberStart(t[1])}

\* Runs of nines as long as an i32 holds, and longer than the inline
\* accumulation of parse_number_fast takes, alone and before a '.' or an
\* e that no digit follows.
LongTokens ==
    {sign \o Cycle(<< NINE >>, n) \o tail :
        sign \in {<< >>, << MINUS >>},
        n \in {9, FAST_DIGITS + 1, FAST_DIGITS + 2},
        tail \in {<< >>, << DOT >>, << Ord("e") >>}}

\* The token as the second element of an array of numbers and as the
\* second value of a flat object: both are read by parse_number_fast.
FastDoc(kind, token) ==
    IF kind = "elem" THEN Str("[1,") \o token \o Str("]")
    ELSE Str("{\"a\":1,\"b\":") \o token \o Str("}")

FastRun(kind, token, o) == DecodeRun(FastDoc(kind, token), o, Family("fast", kind, 0, token))

InitFast ==
    \/ InitCore
    \/ \E kind \in {"elem", "flat"}, token \in FastTokens \cup LongTokens,
          o \in {DefaultDecodeOptions, DigitLimited, FloatsDecimals} :
          Start(FastRun(kind, token, o))
SpecFast == InitFast /\ [][Next]_vars

\* The parser is about to read a number by parse_number_fast.
AtFastNumber ==
    /\ pc = "value" /\ round # 1
    /\ how \in {"number_fast", "flat"}
    /\ IsNumberStart(Peek(input, pos))

\* The digits from p on, after a '-' at p, are few enough for the integers
\* of the checker, or more than parse_number_fast accumulates.
WithinIntegers(bytes, p) ==
    \E n \in {scalar_skip_digits(bytes, IF At(bytes, p) = MINUS THEN p + 1 ELSE p)
                 - (IF At(bytes, p) = MINUS THEN p + 1 ELSE p)} :
        n <= 9 \/ n > FAST_DIGITS

\* C28: wherever a '-' or a digit stands in the input, parse_number_fast
\* and parse_number have the same outcome, the same term and end offset or
\* the same error at the same offset; and where the parser takes the fast
\* path, the value parser of the step returns what parse_value would.
FastPathSame ==
    /\ (family.name = "fast" /\ round = 0) =>
          \A p \in 0..(Len(input) - 1) :
              (IsNumberStart(At(input, p)) /\ WithinIntegers(input, p)) =>
                 parse_number_fast(input, p, opts) = parse_number(input, p, opts)
    /\ AtFastNumber =>
          parse_scalar(input, pos, how, opts) = parse_scalar(input, pos, "value", opts)

\* parse_number_fast has read a negative integer of two digits inline as
\* the value of a flat object, where parse_number reads the same.
FastIntegerRead ==
    /\ family.name = "fast" /\ family.kind = "flat" /\ round = 0
    /\ pc = "return" /\ how = "flat"
    /\ ret = << "int", -11 >>
    /\ parse_number(input, TheOne({p \in 0..Len(input) : Peek(input, p) = MINUS}), opts)
          = Ok(ret, pos)

(***************************************************************************)
(* The nesting limit of the encoder.                                       *)
(***************************************************************************)

\* How far around the limit the nesting of the encoded terms ranges.
EncodeDepthSpan == 1

EncodeDeepKinds == {"empty list", "list", "empty map", "map"}

\* The innermost container of a term of the kind.
EncodeCore(kind) ==
    CASE kind = "empty list" -> << "list", << >> >>
      [] kind = "list" -> << "list", << << "int", 1 >> >> >>
      [] kind = "empty map" -> << "map", [k \in {} |-> NoTerm] >>
      [] kind = "map" -> << "map", [k \in {Str("a")} |-> << "int", 1 >>] >>

\* The term in k more containers: lists for a list kind, maps under the key
\* "a" for a map kind.
RECURSIVE Wrapped(_, _, _)
Wrapped(kind, term, k) ==
    IF k = 0 THEN term
    ELSE IF k > 1
    THEN TheOne({Wrapped(kind, inner, k - (k \div 2)) :
                    inner \in {Wrapped(kind, term, k \div 2)}})
    ELSE IF kind \in {"empty list", "list"} THEN << "list", << term >> >>
    ELSE << "map", [key \in {Str("a")} |-> term] >>

\* A term of n containers in one another.
NestedTerm(kind, n) == Wrapped(kind, EncodeCore(kind), n - 1)

EncodeDeepRun(kind, n) ==
    EncodeRun(NestedTerm(kind, n), DefaultFormatOptions, Family("encode", kind, n, << >>))

InitEncodeDeep ==
    \/ InitCore
    \/ \E kind \in EncodeDeepKinds,
          n \in (MAX_DEPTH - EncodeDepthSpan)..(MAX_DEPTH + 1 + EncodeDepthSpan) :
          Start(EncodeDeepRun(kind, n))
SpecEncodeDeep == InitEncodeDeep /\ [][Next]_vars

\* encode has returned its buffer in a run of the family.
EncodeReturned == family.name = "encode" /\ round = 1 /\ pc = "new"

\* C29: the encoder returns no document for a value of more than MAX_DEPTH
\* nested containers, the innermost one empty or not, so every document it
\* returns nests at most MAX_DEPTH deep.
EncoderLimitSame ==
    EncodeReturned => (family.n <= MAX_DEPTH /\ Nesting(input) <= MAX_DEPTH)

(***************************************************************************)
(* Termination of decode: documents whole, cut short and damaged           *)
(***************************************************************************)

MaxTermNest == 2

\* An array of two objects, the value of c two escaped code points: strings
\* with simple, four-digit and surrogate-pair escapes, a number with a
\* fraction and an exponent, an array in an array, and a second object
\* that departs from the shape of the first at its second key.
TermDoc ==
    Str("[{\"a\":\"x") \o << BACKSLASH >> \o Str("n\",\"b\":-1.5e2},{\"a\":[1, 2] ,\"c\":\"")
        \o << BACKSLASH >> \o Str("u00e9") \o << BACKSLASH >> \o Str("ud83d")
        \o << BACKSLASH >> \o Str("ude00\"}]")

\* The bytes a damaged document has in place of one of its own.
TermBytes == {QUOTE, BACKSLASH, LBRACE, COMMA, ZERO, TAB - 8}

Damaged(doc, at, b) == [doc EXCEPT ![at] = b]

TermRun(doc, kind, n, item) ==
    DecodeRun(doc, DefaultDecodeOptions, Family("term", kind, n, item))

InitTerm ==
    \/ InitCore
    \/ \E k \in 0..Len(TermDoc) :
          Start(TermRun(SubSeq(TermDoc, 1, k), "cut", k, 0))
    \/ \E at \in 1..Len(TermDoc), b \in TermBytes :
          Start(TermRun(Damaged(TermDoc, at, b), "damaged", at, b))
    \/ \E kind \in {"match", "mismatch", "short"}, n \in 0..MaxTermNest,
          pad \in {"none", "lead", "trail"} :
          Start(TermRun(RewindPadded(NestedDoc(kind, n), pad), kind, n, pad))
SpecTerm == InitTerm /\ [][Next]_vars

\* json_to_term runs on a scheduler thread of the runtime that keeps running
\* it until it returns: a step that can be taken is taken.
SpecTermFair == SpecTerm /\ WF_vars(Next)

\* A decode call is running.
DecodeRunning == pc \in {"new", "parse", "value", "return", "key"}

\* One pass of a loop of a value parser: a scalar is scanned, a container
\* is opened, or parse_array or an object parser goes on after an element
\* or a value.
LoopStep == pc \in {"value", "return"} /\ pc' \in {"value", "return"}

\* rewind_and_fallback! returns from parse_object_shaped into parse_object,
\* at or before the offset the parser is at, with no shape left to try.
ReturnsIntoParseObject ==
    /\ pc' = "value" /\ how' = "object"
    /\ pos' <= pos
    /\ stack' # << >> /\ stack'[Len(stack')].shape = NoShape

\* C30: every decode call ends with a value or an error; until then each
\* pass of a loop of the value parsers leaves the parser at a later offset,
\* never past the end of the input, or returns into parse_object.
DecodeTerminates ==
    /\ [][LoopStep => /\ pos' <= Len(input)
                      /\ pos' > pos \/ ReturnsIntoParseObject]_vars
    /\ [](pc = "done" => result # Pending)
    /\ DecodeRunning ~> (pc = "done")

\* A decode that has ended after nested rewinds parsed one value four times.
TerminatedAfterRewinds ==
    /\ family.name = "term" /\ round = 0 /\ pc = "done"
    /\ \E p \in DOMAIN parsed : parsed[p] >= 4

====
